---------------------------- MODULE Spec2Model ----------------------------
(***************************************************************************)
(* A model of galdr's command-line parser (the closure-based engine of     *)
(* src/unnamed/part_002: createParserContext, parseResults, parseArg and   *)
(* the resolvers it dispatches to).                                        *)
(*                                                                         *)
(* Strings are sequences of one-character strings, so that startsWith,     *)
(* substr, split("=") and replace(/^no-/, "") are computed as the code     *)
(* computes them.  The token cursor idx is 0-based as in the code; the     *)
(* token the code reads as args[idx] is args[idx + 1] here.                *)
(*                                                                         *)
(* Spec is one call of parse.  SpecAgain is a series of calls, SpecApi the *)
(* cursor driven through the ParserApi of a step, SpecCompletion a parse   *)
(* followed by getCompletionSuggestions or getExpectedParameterType, and   *)
(* FairSpec one parse whose loop is never suspended.                       *)
(***************************************************************************)
EXTENDS Integers, Sequences, FiniteSets, TLC

VARIABLES
    cmd,               \* the Command tree handed to parse
    args,              \* the token list handed to parse
    idx,               \* the cursor of createParserContext
    parsed,            \* state.parsed, the events pushed so far
    topCommand,        \* state.topCommand, as a node of cmd
    longOptions,       \* state.longOptions
    shortOptions,      \* state.shortOptions
    knownOptionNames,  \* state.knownOptionNames, in insertion order
    pc,                \* "parsing" (in the loop), "done" (returned), "threw"
    error,             \* "none", or the Error thrown: "conflict", "underflow"
    earlier,           \* the first of a series of calls of parse, and its result
    step,              \* the ParserApi a resolver holds: argIdx, the calls made
    completion,        \* what getCompletionSuggestions computed and how it ended
    expected,          \* what getExpectedParameterType returned
    steps              \* the rounds of the loop of parseResults so far

vars == <<cmd, args, idx, parsed, topCommand,
          longOptions, shortOptions, knownOptionNames, pc, error,
          earlier, step, completion, expected, steps>>

\* The longest token list the model parses.
MaxArgs == 3

----------------------------------------------------------------------------
(* String helpers: String.prototype.startsWith / substr / split / replace. *)

startsWith(s, p) == Len(s) >= Len(p) /\ SubSeq(s, 1, Len(p)) = p

\* s.substr(n) for 0 <= n
substr(s, n) == SubSeq(s, n + 1, Len(s))

\* Index (1-based) of the first "=" of s, 0 when there is none.
firstEq(s) ==
    IF \E i \in 1..Len(s) : s[i] = "="
    THEN CHOOSE i \in 1..Len(s) : s[i] = "=" /\ \A j \in 1..(i - 1) : s[j] # "="
    ELSE 0

\* const [name, ...eqOther] = s.split("=")
splitName(s) == IF firstEq(s) = 0 THEN s ELSE SubSeq(s, 1, firstEq(s) - 1)
\* eqOther.length (as a truth value)
hasEq(s) == firstEq(s) # 0
\* The first piece after the "=" only: const [name, value] = s.split("=").
MutEqFirstPiece(s) ==
    LET rest == SubSeq(s, firstEq(s) + 1, Len(s))
    IN  IF firstEq(rest) = 0 THEN rest ELSE SubSeq(rest, 1, firstEq(rest) - 1)

\* eqOther.join("=")
eqOtherJoin(s) == SubSeq(s, firstEq(s) + 1, Len(s))

NoPrefix == <<"n", "o", "-">>
\* name.replace(/^no-/, "")
stripNo(name) == IF startsWith(name, NoPrefix) THEN substr(name, 3) ELSE name

----------------------------------------------------------------------------
(* Option kinds (OptionType) and the flag-like test.                       *)

OptionType == {"file", "files", "dir", "dirs", "string", "strings",
               "numbers", "number", "flag", "count"}

isFlagTypeOption(opt) == opt.type = "flag" \/ opt.type = "count"

\* What Map.get / StringTree.get return for a key that was never set.
Undefined == [name |-> <<>>, type |-> "undefined"]

----------------------------------------------------------------------------
(* Names used by the schemas and token lists below.                        *)

DD == <<"-", "-">>
D  == <<"-">>
N_opt1   == <<"o", "p", "t", "1">>
N_opt2   == <<"o", "p", "t", "2">>
N_opt4   == <<"o", "p", "t", "4">>
N_a      == <<"a">>
N_b      == <<"b">>
N_c      == <<"c">>
N_v      == <<"v">>
N_food   == <<"f", "o", "o", "d">>
N_foobar == <<"f", "o", "o", "b", "a", "r">>
N_foob   == <<"f", "o", "o", "b">>
N_loud   == <<"l", "o", "u", "d">>
N_cmd1   == <<"c", "m", "d", "1">>
N_cmd2   == <<"c", "m", "d", "2">>
N_cmd3   == <<"c", "m", "d", "3">>
N_pos1   == <<"p", "o", "s", "1">>
N_trot   == <<"t", "r", "o", "t">>
N_out    == <<"o", "u", "t">>
N_o      == <<"o">>
N_tag    == <<"t", "a", "g">>
N_t      == <<"t">>
N_run    == <<"r", "u", "n">>
N_unk    == <<"u", "n", "k">>
\* The empty token, and the tail of a token that has a name and "=v".
Empty    == <<>>
EqV      == <<"=", "v">>

Opt(name, type, aliases) == [name |-> name, type |-> type, aliases |-> aliases]
Sub(name, node) == [name |-> name, node |-> node]
Node(options, subCommands) == [options |-> options, subCommands |-> subCommands]

(***************************************************************************)
(* A Command tree is a sequence of nodes, node 1 the root; a node lists    *)
(* its options and its sub-commands in Object.entries order, a sub-command *)
(* by the index of its node.                                               *)
(***************************************************************************)

\* The schema of the first test of the parser module.
testCommand ==
    << Node(<< Opt(N_opt1, "flag", <<>>),
               Opt(N_opt2, "strings", <<>>),
               Opt(N_a, "flag", <<N_opt4>>) >>,
            << Sub(N_cmd1, 2) >>),
       Node(<< Opt(N_b, "string", <<>>) >>,
            << Sub(N_cmd2, 3) >>),
       Node(<<>>, <<>>) >>

\* The schema of the unique-prefix test (food: flag, foobar: string), with
\* short options, a count option, and sub-commands cmd1 (holding flag b),
\* cmd3 and one whose name starts with a dash.
prefixCommand ==
    << Node(<< Opt(N_food, "flag", <<>>),
               Opt(N_foobar, "string", <<>>),
               Opt(N_a, "flag", <<>>),
               Opt(N_c, "string", <<>>),
               Opt(N_loud, "count", <<N_v>>) >>,
            << Sub(N_cmd1, 2), Sub(N_cmd3, 3), Sub(D \o N_b, 3) >>),
       Node(<< Opt(N_b, "flag", <<>>) >>,
            << Sub(N_cmd2, 3) >>),
       Node(<<>>, <<>>) >>

\* A schema whose registry does not build: opt1 is a flag at the root and a
\* string inside cmd1.
conflictCommand ==
    << Node(<< Opt(N_opt1, "flag", <<>>) >>,
            << Sub(N_cmd1, 2) >>),
       Node(<< Opt(N_opt1, "string", <<>>) >>, <<>>) >>

\* A schema whose registry does not build either: the no-opt1 that flag
\* opt1 brings with it is the name of a string option inside cmd1.
negationCommand ==
    << Node(<< Opt(N_opt1, "flag", <<>>) >>,
            << Sub(N_cmd1, 2) >>),
       Node(<< Opt(NoPrefix \o N_opt1, "string", <<>>) >>, <<>>) >>

\* A schema with value-taking options of a singular kind (out: file, alias
\* o) and of a plural kind (tag: strings, alias t), whose sub-command run
\* declares out again with the same kind, and declares t as a flag.
kindsCommand ==
    << Node(<< Opt(N_out, "file", <<N_o>>),
               Opt(N_tag, "strings", <<N_t>>) >>,
            << Sub(N_run, 2) >>),
       Node(<< Opt(N_out, "file", <<>>),
               Opt(N_t, "flag", <<>>) >>,
            <<>>) >>

Commands ==
    {testCommand, prefixCommand, conflictCommand, negationCommand, kindsCommand}

\* The tokens a command line for each schema is drawn from.
Tokens(c) ==
    IF c = testCommand THEN
        { DD, DD \o N_opt1, DD \o NoPrefix \o N_opt1, DD \o N_opt2,
          DD \o N_opt4, D \o N_a \o N_b \o N_c, DD \o N_a,
          D \o NoPrefix \o N_a,
          DD \o N_opt2 \o <<"=", "x", "=", "y">>, DD \o N_opt1 \o EqV,
          N_cmd1, N_cmd2, N_pos1 }
    ELSE IF c = prefixCommand THEN
        { DD, D, DD \o N_foob, DD \o NoPrefix \o <<"f">>, DD \o N_foobar,
          DD \o N_loud, D \o N_a \o N_b \o N_c, D \o N_b,
          D \o N_a \o N_v \o <<"=", "x">>, N_cmd1, N_cmd3, N_trot }
    ELSE IF c = kindsCommand THEN
        { Empty, DD \o N_out, D \o N_o, DD \o N_tag, D \o N_t, DD \o N_unk,
          D \o EqV, DD \o EqV, N_run }
    ELSE { DD \o N_opt1, N_cmd1 }

RECURSIVE SeqsUpTo(_, _)
\* All sequences over S of length at most n.
SeqsUpTo(S, n) ==
    IF n = 0 THEN { <<>> }
    ELSE LET shorter == SeqsUpTo(S, n - 1)
         IN  shorter \cup { Append(s, t) : s \in { q \in shorter : Len(q) = n - 1 }, t \in S }


----------------------------------------------------------------------------
(* The registry: ParserState's knownOptionNames, longOptions, shortOptions *)
(* as addKnownCommandToState fills them.  error is set where the code      *)
(* throws the conflicting-definitions Error, which ends the build.         *)

\* The state createParserContext starts the build from.
emptyState ==
    [knownOptionNames |-> <<>>, longOptions |-> <<>>, shortOptions |-> <<>>,
     error |-> FALSE]

\* StringTree.get / Map.get: the value set under exactly this key.
lookup(table, key) == IF key \in DOMAIN table THEN table[key] ELSE Undefined

\* Set.prototype.add on an insertion-ordered Set.
setAdd(names, name) ==
    IF \E i \in 1..Len(names) : names[i] = name THEN names ELSE Append(names, name)

\* Aliases without the synthesized no-<alias> forms.
MutAliasesOf(name, opt) == <<name>> \o opt.aliases

\* const aliases = [name, ...(opt.aliases || [])], then for a flag-like
\* option the no-<alias> form of every alias longer than one character.
aliasesOf(name, opt) ==
    LET declared == <<name>> \o opt.aliases
        long == SelectSeq(declared, LAMBDA a : Len(a) > 1)
    IN  IF isFlagTypeOption(opt)
        THEN declared \o [i \in 1..Len(long) |-> NoPrefix \o long[i]]
        ELSE declared

\* A registration where the last definition of an alias wins, kinds unseen.
MutLastWriterWins(state, alias, namedOpt) ==
    IF Len(alias) = 1
    THEN [state EXCEPT !.shortOptions = (alias :> namedOpt) @@ @]
    ELSE [state EXCEPT !.longOptions = (alias :> namedOpt) @@ @]

\* One round of the loop over aliases.
registerAlias(state, alias, namedOpt) ==
    IF Len(alias) = 1
    THEN [state EXCEPT !.shortOptions = (alias :> namedOpt) @@ @]
    ELSE IF lookup(state.longOptions, alias) # Undefined
            /\ lookup(state.longOptions, alias).type # namedOpt.type
         THEN [state EXCEPT !.error = TRUE]
         ELSE [state EXCEPT !.longOptions = (alias :> namedOpt) @@ @]

RECURSIVE registerAliases(_, _, _, _)
registerAliases(state, aliases, i, namedOpt) ==
    IF i > Len(aliases) \/ state.error THEN state
    ELSE registerAliases(registerAlias(state, aliases[i], namedOpt),
                         aliases, i + 1, namedOpt)

\* namedOpt keeps the fields the parser reads: the primary name and the kind.
addKnownOptionToState(state, name, opt) ==
    registerAliases([state EXCEPT !.knownOptionNames = setAdd(@, name)],
                    aliasesOf(name, opt), 1,
                    [name |-> name, type |-> opt.type])

RECURSIVE addOptions(_, _, _)
addOptions(state, options, i) ==
    IF i > Len(options) \/ state.error THEN state
    ELSE addOptions(addKnownOptionToState(state, options[i].name, options[i]),
                    options, i + 1)

RECURSIVE addKnownCommandToState(_, _, _)
RECURSIVE addSubCommands(_, _, _, _)
addKnownCommandToState(state, tree, node) ==
    addSubCommands(addOptions(state, tree[node].options, 1),
                   tree, tree[node].subCommands, 1)
addSubCommands(state, tree, subs, i) ==
    IF i > Len(subs) \/ state.error THEN state
    ELSE addSubCommands(addKnownCommandToState(state, tree, subs[i].node),
                        tree, subs, i + 1)


----------------------------------------------------------------------------
(* The parser context.  A context value c holds what one classification    *)
(* step changes: the cursor, the output list, the active command, and      *)
(* whether putBack threw.                                                  *)

hasNext(c) == c.idx < Len(args)
\* What args[idx] is when idx is not below args.length: no token.
PastEnd == << "undefined" >>

\* getNext returns args[idx] and advances the cursor.
nextArg(c) == IF c.idx < Len(args) THEN args[c.idx + 1] ELSE PastEnd
getNext(c) == [c EXCEPT !.idx = @ + 1]

\* A putBack whose comparison is turned around.
MutPutBackTurned(c, argIdx) ==
    IF c.idx < argIdx THEN [c EXCEPT !.idx = @ - 1]
    ELSE [c EXCEPT !.error = TRUE]

\* A putBack that gives back a lookahead token only.
MutPutBackLookahead(c, argIdx) ==
    IF c.idx > argIdx + 1 THEN [c EXCEPT !.idx = @ - 1]
    ELSE [c EXCEPT !.error = TRUE]

\* putBack(argIdx): argIdx is the cursor at the start of the step.
putBack(c, argIdx) ==
    IF c.idx > argIdx THEN [c EXCEPT !.idx = @ - 1]
    ELSE [c EXCEPT !.error = TRUE]

\* A push that puts the event at the front of the list.
MutPushFront(c, arg) == [c EXCEPT !.parsed = <<arg>> \o @]

pushParsed(c, arg) == [c EXCEPT !.parsed = Append(@, arg)]

commandArg(name) == [type |-> "command", name |-> name]
positionalArg(value) == [type |-> "positional", value |-> value]
optionArg(name, value) == [type |-> "option", name |-> name, value |-> value]
\* A flag event that keeps the typed name, "no-" included.
MutFlagArg(name) ==
    [type |-> "flag", name |-> name, value |-> ~startsWith(name, NoPrefix)]

flagArg(name) ==
    [type |-> "flag", name |-> stripNo(name), value |-> ~startsWith(name, NoPrefix)]

\* hasOwnProperty(state.topCommand.subCommands || {}, name)
hasSubCommand(c, name) ==
    \E i \in 1..Len(cmd[c.topCommand].subCommands) :
        cmd[c.topCommand].subCommands[i].name = name

\* state.topCommand.subCommands[name]
subCommandNode(c, name) ==
    LET subs == cmd[c.topCommand].subCommands
    IN  subs[CHOOSE i \in 1..Len(subs) : subs[i].name = name].node

\* A command event that leaves the active command where it was.
MutCommand(c, name) == pushParsed(c, commandArg(name))

\* A descent that pushes no command event.
MutDescendOnly(c, name) == [c EXCEPT !.topCommand = subCommandNode(c, name)]

command(c, name) ==
    [pushParsed(c, commandArg(name)) EXCEPT !.topCommand = subCommandNode(c, name)]
positional(c, value) == pushParsed(c, positionalArg(value))
option(c, name, value) == pushParsed(c, optionArg(name, value))
flag(c, name) == pushParsed(c, flagArg(name))

\* A short-option lookup that sees the options of the active command only.
MutScopedShort(opt) ==
    IF \E i \in 1..Len(cmd[topCommand].options) :
           \/ cmd[topCommand].options[i].name = opt
           \/ \E k \in 1..Len(cmd[topCommand].options[i].aliases) :
                  cmd[topCommand].options[i].aliases[k] = opt
    THEN lookup(shortOptions, opt)
    ELSE Undefined

getLongOption(opt) == lookup(longOptions, opt)
getShortOption(opt) == lookup(shortOptions, opt)

----------------------------------------------------------------------------
(* The resolvers.  Each takes the context after the step's own token was   *)
(* consumed and returns the context the step leaves.                       *)

\* A decision that applies the leading-dash guess to known options too.
MutGuessFirst(name, opt, c, argIdx) ==
    IF hasNext(c)
    THEN LET maybeParam == nextArg(c)
             c1 == getNext(c)
         IN  IF startsWith(maybeParam, D) \/ (opt # Undefined /\ isFlagTypeOption(opt))
             THEN flag(putBack(c1, argIdx), name)
             ELSE option(c1, name, maybeParam)
    ELSE flag(c, name)

\* A decision that never takes the following token for an unknown name.
MutUnknownIsFlag(name, opt, c, argIdx) ==
    IF hasNext(c)
    THEN LET maybeParam == nextArg(c)
             c1 == getNext(c)
         IN  IF opt # Undefined /\ ~isFlagTypeOption(opt)
             THEN option(c1, name, maybeParam)
             ELSE flag(putBack(c1, argIdx), name)
    ELSE flag(c, name)

\* A decision that, for a known flag, puts back the token it classifies too.
MutPutBackTwice(name, opt, c, argIdx) ==
    IF hasNext(c)
    THEN LET maybeParam == nextArg(c)
             c1 == getNext(c)
         IN  IF opt # Undefined
             THEN IF isFlagTypeOption(opt)
                  THEN flag(putBack(putBack(c1, argIdx), argIdx), name)
                  ELSE option(c1, name, maybeParam)
             ELSE IF startsWith(maybeParam, D)
                  THEN flag(putBack(c1, argIdx), name)
                  ELSE option(c1, name, maybeParam)
    ELSE flag(c, name)

\* A decision that gives a value-taking option an empty value when no
\* token is left.
MutLastTakesEmpty(name, opt, c, argIdx) ==
    IF hasNext(c)
    THEN LET maybeParam == nextArg(c)
             c1 == getNext(c)
         IN  IF opt # Undefined
             THEN IF isFlagTypeOption(opt)
                  THEN flag(putBack(c1, argIdx), name)
                  ELSE option(c1, name, maybeParam)
             ELSE IF startsWith(maybeParam, D)
                  THEN flag(putBack(c1, argIdx), name)
                  ELSE option(c1, name, maybeParam)
    ELSE IF opt # Undefined /\ ~isFlagTypeOption(opt)
         THEN option(c, name, <<>>)
         ELSE flag(c, name)

\* A decision that reads the value of a known value-taking option without
\* asking whether a token is left.
MutReadsUnchecked(name, opt, c, argIdx) ==
    IF hasNext(c) \/ (opt # Undefined /\ ~isFlagTypeOption(opt))
    THEN LET maybeParam == nextArg(c)
             c1 == getNext(c)
         IN  IF opt # Undefined
             THEN IF isFlagTypeOption(opt)
                  THEN flag(putBack(c1, argIdx), name)
                  ELSE option(c1, name, maybeParam)
             ELSE IF startsWith(maybeParam, D)
                  THEN flag(putBack(c1, argIdx), name)
                  ELSE option(c1, name, maybeParam)
    ELSE flag(c, name)

\* A decision that, for a known flag, leaves the token it looked at
\* consumed.
MutKeepsLookahead(name, opt, c, argIdx) ==
    IF hasNext(c)
    THEN LET maybeParam == nextArg(c)
             c1 == getNext(c)
         IN  IF opt # Undefined
             THEN IF isFlagTypeOption(opt)
                  THEN flag(c1, name)
                  ELSE option(c1, name, maybeParam)
             ELSE IF startsWith(maybeParam, D)
                  THEN flag(putBack(c1, argIdx), name)
                  ELSE option(c1, name, maybeParam)
    ELSE flag(c, name)

parseOptionWithPossibleParameter(name, opt, c, argIdx) ==
    IF hasNext(c)
    THEN LET maybeParam == nextArg(c)
             c1 == getNext(c)
         IN  IF opt # Undefined
             THEN IF isFlagTypeOption(opt)
                  THEN LET c2 == putBack(c1, argIdx)
                       IN  IF c2.error THEN c2 ELSE flag(c2, name)
                  ELSE option(c1, name, maybeParam)
             ELSE IF startsWith(maybeParam, D)
                  THEN LET c2 == putBack(c1, argIdx)
                       IN  IF c2.error THEN c2 ELSE flag(c2, name)
                  ELSE option(c1, name, maybeParam)
    ELSE flag(c, name)

\* One flag event for the whole of firstNames instead of one per character.
MutPushFlags(c, firstNames, i) ==
    IF Len(firstNames) = 0 THEN c ELSE flag(c, firstNames)

RECURSIVE pushFlags(_, _, _)
\* for (const shortOpt of firstNames) api.push.flag(shortOpt)
pushFlags(c, firstNames, i) ==
    IF i > Len(firstNames) THEN c
    ELSE pushFlags(flag(c, <<firstNames[i]>>), firstNames, i + 1)

\* allNames.substr(allNames.length - 1): the last character, "" of "".
lastNameOf(allNames) ==
    IF Len(allNames) = 0 THEN <<>> ELSE <<allNames[Len(allNames)]>>
\* allNames.substr(0, allNames.length - 1)
firstNamesOf(allNames) ==
    IF Len(allNames) = 0 THEN <<>> ELSE SubSeq(allNames, 1, Len(allNames) - 1)

parseShortOptionArg(arg, c, argIdx) ==
    LET bareArgs == substr(arg, 1)
        allNames == splitName(bareArgs)
        lastName == lastNameOf(allNames)
        firstNames == firstNamesOf(allNames)
        c1 == pushFlags(c, firstNames, 1)
    IN  IF hasEq(bareArgs)
        THEN option(c1, lastName, eqOtherJoin(bareArgs))
        ELSE parseOptionWithPossibleParameter(lastName, getShortOption(lastName),
                                              c1, argIdx)

\* A long-option resolver that names the event after the primary name of
\* the definition it found.
MutCanonicalLong(arg, c, argIdx) ==
    LET bareArg == substr(arg, 2)
        name == splitName(bareArg)
        opt == getLongOption(name)
    IN  IF hasEq(bareArg)
        THEN option(c, name, eqOtherJoin(bareArg))
        ELSE parseOptionWithPossibleParameter(
                 IF opt # Undefined THEN opt.name ELSE name, opt, c, argIdx)

parseLongOptionArg(arg, c, argIdx) ==
    LET bareArg == substr(arg, 2)
        name == splitName(bareArg)
    IN  IF hasEq(bareArg)
        THEN option(c, name, eqOtherJoin(bareArg))
        ELSE parseOptionWithPossibleParameter(name, getLongOption(name), c, argIdx)

\* A breakout that emits only the token right after the marker.
MutParseBreakOutArg(c) ==
    IF hasNext(c) THEN positional(getNext(c), nextArg(c)) ELSE c

RECURSIVE parseBreakOutArg(_)
\* while (api.hasNext()) api.push.positional(api.getNext())
parseBreakOutArg(c) ==
    IF hasNext(c) THEN parseBreakOutArg(positional(getNext(c), nextArg(c))) ELSE c

\* A descent that pushes no command event.
MutParseSubCommand(c, arg) == [c EXCEPT !.topCommand = subCommandNode(c, arg)]

parseSubCommand(c, arg) == command(c, arg)
parsePositionalArg(c, arg) == positional(c, arg)

\* The rule of parseArg that takes arg, by parseArg's chain of tests.
\* A parseArg that looks for a sub-command before it looks at the dashes.
MutSubCommandFirst(arg, c) ==
    IF hasSubCommand(c, arg) THEN "command"
    ELSE IF arg = DD THEN "breakout"
    ELSE IF arg = D THEN "dash"
    ELSE IF startsWith(arg, DD) THEN "long"
    ELSE IF startsWith(arg, D) THEN "short"
    ELSE "positional"

classify(arg, c) ==
    IF arg = DD THEN "breakout"
    ELSE IF arg = D THEN "dash"
    ELSE IF startsWith(arg, DD) THEN "long"
    ELSE IF startsWith(arg, D) THEN "short"
    ELSE IF hasSubCommand(c, arg) THEN "command"
    ELSE "positional"

parseArg(arg, c, argIdx) ==
    LET rule == classify(arg, c)
    IN  CASE rule = "breakout" -> parseBreakOutArg(c)
          [] rule = "dash" -> parsePositionalArg(c, arg)
          [] rule = "long" -> parseLongOptionArg(arg, c, argIdx)
          [] rule = "short" -> parseShortOptionArg(arg, c, argIdx)
          [] rule = "command" -> parseSubCommand(c, arg)
          [] OTHER -> parsePositionalArg(c, arg)

----------------------------------------------------------------------------
(* The state machine: parseResults.                                        *)

\* The context at the current state.
context ==
    [idx |-> idx, parsed |-> parsed, topCommand |-> topCommand, error |-> FALSE]

\* The registry an earlier call of createParserContext left behind.
left ==
    [knownOptionNames |-> knownOptionNames, longOptions |-> longOptions,
     shortOptions |-> shortOptions, error |-> FALSE]

\* A parser state that is the one an earlier call left.
MutKeptParserState(before) == before

\* const state: ParserState = { knownOptionNames: new Set(), ... }: every
\* call starts from a state of its own, whatever a call before it left.
newParserState(before) == emptyState

\* The variables no parse changes, as they are before any other call.
NoEarlier ==
    [runs |-> 1, cmd |-> <<>>, args |-> <<>>,
     pc |-> "none", error |-> "none", parsed |-> <<>>, mixed |-> FALSE]
NoStep == [active |-> FALSE, argIdx |-> 0, calls |-> <<>>]
NoCompletion ==
    [status |-> "none", reached |-> "none",
     optionsNotUsed |-> <<>>, commands |-> <<>>, words |-> <<>>]

\* createParserContext(cmd, args): the registry is built, or the build
\* throws; the cursor, the output list and the active command start anew.
createParserContext(tree, before) ==
    LET state == addKnownCommandToState(newParserState(before), tree, 1)
    IN  [idx |-> 0, parsed |-> <<>>, topCommand |-> 1,
         longOptions |-> state.longOptions,
         shortOptions |-> state.shortOptions,
         knownOptionNames |-> state.knownOptionNames,
         pc |-> IF state.error THEN "threw" ELSE "parsing",
         error |-> IF state.error THEN "conflict" ELSE "none"]

Init ==
    /\ cmd \in Commands
    /\ args \in SeqsUpTo(Tokens(cmd), MaxArgs)
    /\ LET made == createParserContext(cmd, emptyState)
       IN  /\ idx = made.idx
           /\ parsed = made.parsed
           /\ topCommand = made.topCommand
           /\ longOptions = made.longOptions
           /\ shortOptions = made.shortOptions
           /\ knownOptionNames = made.knownOptionNames
           /\ pc = made.pc
           /\ error = made.error
    /\ earlier = NoEarlier
    /\ step = NoStep
    /\ completion = NoCompletion
    /\ expected = "unset"
    /\ steps = 0

\* One round of the loop of parseResults: const [arg, api] = context.next(),
\* where next() notes argIdx = idx and consumes the token, and then
\* parseArg(arg, api).  rule is the rule of parseArg that takes the token
\* and after is the context the round leaves.
rule == classify(nextArg(context), getNext(context))
after == parseArg(nextArg(context), getNext(context), idx)

Step ==
    /\ idx' = after.idx
    /\ parsed' = after.parsed
    /\ topCommand' = after.topCommand
    /\ pc' = IF after.error THEN "threw" ELSE "parsing"
    /\ error' = IF after.error THEN "underflow" ELSE "none"
    /\ steps' = steps + 1
    /\ UNCHANGED <<cmd, args, longOptions, shortOptions, knownOptionNames>>
    /\ UNCHANGED <<earlier, step, completion, expected>>

\* The loop's test, while (context.hasNext()).
InLoop == pc = "parsing" /\ hasNext(context)

BreakOut ==
    /\ InLoop
    /\ rule = "breakout"
    /\ Step

BareDash ==
    /\ InLoop
    /\ rule = "dash"
    /\ Step

LongOption ==
    /\ InLoop
    /\ rule = "long"
    /\ Step

ShortOption ==
    /\ InLoop
    /\ rule = "short"
    /\ Step

SubCommand ==
    /\ InLoop
    /\ rule = "command"
    /\ Step

Positional ==
    /\ InLoop
    /\ rule = "positional"
    /\ Step

\* The loop ends: parseResults returns its context.
Return ==
    /\ pc = "parsing"
    /\ ~hasNext(context)
    /\ pc' = "done"
    /\ UNCHANGED <<cmd, args, idx, parsed, topCommand,
                   longOptions, shortOptions, knownOptionNames, error>>
    /\ UNCHANGED <<earlier, step, completion, expected, steps>>

Next ==
    \/ BreakOut
    \/ BareDash
    \/ LongOption
    \/ ShortOption
    \/ SubCommand
    \/ Positional
    \/ Return

Spec == Init /\ [][Next]_vars

----------------------------------------------------------------------------
(* A series of calls of parse: when one has returned or thrown, the caller *)
(* calls parse again, with the same input or with another.  earlier keeps  *)
(* the input and the result of the first call of the series.               *)

\* The most calls in a series, and the longest token list of a series.
MaxRuns == 3
MaxAgainArgs == 2

AgainCommands == {testCommand, prefixCommand, conflictCommand}

\* Tokens of a series, one for each rule of parseArg: food is a flag of
\* prefixCommand only, a is a flag and cmd1 a sub-command of both schemas.
AgainTokens == { DD, D, DD \o N_food, D \o N_a, N_cmd1, N_pos1 }

\* The token list of the first call of the series, and another one.
firstArgs == IF earlier.runs = 1 THEN args ELSE earlier.args
otherArgs == << DD \o N_food, N_cmd1 >>

InitAgain ==
    /\ cmd \in AgainCommands
    /\ args \in SeqsUpTo(AgainTokens, MaxAgainArgs)
    /\ LET made == createParserContext(cmd, emptyState)
       IN  /\ idx = made.idx
           /\ parsed = made.parsed
           /\ topCommand = made.topCommand
           /\ longOptions = made.longOptions
           /\ shortOptions = made.shortOptions
           /\ knownOptionNames = made.knownOptionNames
           /\ pc = made.pc
           /\ error = made.error
    /\ earlier = NoEarlier
    /\ step = NoStep
    /\ completion = NoCompletion
    /\ expected = "unset"
    /\ steps = 0

\* parse(cmd, args) is called once more: createParserContext runs again.
ParseAgain ==
    /\ pc \in {"done", "threw"}
    /\ earlier.runs < MaxRuns
    /\ \E c \in AgainCommands :
         \E a \in {firstArgs, otherArgs} :
            LET made == createParserContext(c, left)
            IN  /\ cmd' = c
                /\ args' = a
                /\ idx' = made.idx
                /\ parsed' = made.parsed
                /\ topCommand' = made.topCommand
                /\ longOptions' = made.longOptions
                /\ shortOptions' = made.shortOptions
                /\ knownOptionNames' = made.knownOptionNames
                /\ pc' = made.pc
                /\ error' = made.error
    /\ earlier' =
         IF earlier.runs = 1
         THEN [runs |-> 2, cmd |-> cmd, args |-> args, pc |-> pc,
               error |-> error, parsed |-> parsed, mixed |-> FALSE]
         ELSE [earlier EXCEPT !.runs = @ + 1,
                              !.mixed = @ \/ cmd # earlier.cmd]
    /\ steps' = 0
    /\ UNCHANGED <<step, completion, expected>>

NextAgain ==
    \/ Next
    \/ ParseAgain

SpecAgain == InitAgain /\ [][NextAgain]_vars

\* One parse of a token list of a series.  parseResults runs its loop until
\* it returns: nothing suspends it.
FairSpec == InitAgain /\ [][Next]_vars /\ WF_vars(Next)

----------------------------------------------------------------------------
(* The class-based engine of parser.ts (CommandLineParser), prefix CLP_:   *)
(* the parser object p holds the fields of the class and the idx of parse. *)

\* The CommandOption of an entry of cmd.options, as the class keeps it.
CLP_optionOf(entry) == [type |-> entry.type, aliases |-> entry.aliases]

\* The fields a new CommandLineParser starts with, and parse's idx.
CLP_emptyState ==
    [longOptions |-> <<>>, shortOptions |-> <<>>, topCommand |-> 1,
     parsed |-> <<>>, idx |-> 0, error |-> "none"]

\* const aliases = [name, ...(opt.aliases || [])], and for a flag-like
\* option aliases.push(...aliases.filter(a => a.length > 1).map(no-)).
CLP_aliasesOf(name, opt) ==
    LET declared == <<name>> \o opt.aliases
        long == SelectSeq(declared, LAMBDA a : Len(a) > 1)
    IN  IF isFlagTypeOption(opt)
        THEN declared \o [i \in 1..Len(long) |-> NoPrefix \o long[i]]
        ELSE declared

\* One round of for (const alias of aliases): the table keeps opt itself.
CLP_registerAlias(p, alias, opt) ==
    IF Len(alias) = 1
    THEN [p EXCEPT !.shortOptions = (alias :> opt) @@ @]
    ELSE IF lookup(p.longOptions, alias) # Undefined
            /\ lookup(p.longOptions, alias).type # opt.type
         THEN [p EXCEPT !.error = "conflict"]
         ELSE [p EXCEPT !.longOptions = (alias :> opt) @@ @]

RECURSIVE CLP_registerAliases(_, _, _, _)
CLP_registerAliases(p, aliases, i, opt) ==
    IF i > Len(aliases) \/ p.error # "none" THEN p
    ELSE CLP_registerAliases(CLP_registerAlias(p, aliases[i], opt),
                            aliases, i + 1, opt)

CLP_addKnownOption(p, name, opt) ==
    CLP_registerAliases(p, CLP_aliasesOf(name, opt), 1, opt)

RECURSIVE CLP_addOptions(_, _, _)
\* for (const [name, opt] of Object.entries(cmd.options || {}))
CLP_addOptions(p, options, i) ==
    IF i > Len(options) \/ p.error # "none" THEN p
    ELSE CLP_addOptions(
             CLP_addKnownOption(p, options[i].name, CLP_optionOf(options[i])),
             options, i + 1)

RECURSIVE CLP_addKnownCommand(_, _, _)
RECURSIVE CLP_addSubCommands(_, _, _, _)
CLP_addKnownCommand(p, tree, node) ==
    CLP_addSubCommands(CLP_addOptions(p, tree[node].options, 1),
                      tree, tree[node].subCommands, 1)
\* for (const sub of Object.values(cmd.subCommands || {}))
CLP_addSubCommands(p, tree, subs, i) ==
    IF i > Len(subs) \/ p.error # "none" THEN p
    ELSE CLP_addSubCommands(CLP_addKnownCommand(p, tree, subs[i].node),
                           tree, subs, i + 1)

\* new CommandLineParser(cmd): the tables are filled, or the build throws.
CLP_constructor == CLP_addKnownCommand(CLP_emptyState, cmd, 1)

CLP_hasNext(p) == p.idx < Len(args)
\* const next = args[idx]
CLP_nextArg(p) == IF p.idx < Len(args) THEN args[p.idx + 1] ELSE PastEnd
CLP_getNext(p) == [p EXCEPT !.idx = @ + 1]
CLP_putBack(p, argIdx) ==
    IF p.idx > argIdx THEN [p EXCEPT !.idx = @ - 1]
    ELSE [p EXCEPT !.error = "underflow"]

\* flagArg(name)
CLP_flagArg(name) ==
    [type |-> "flag", name |-> stripNo(name), value |-> ~startsWith(name, NoPrefix)]

\* this.parsed.push(event)
CLP_push(p, event) == [p EXCEPT !.parsed = Append(@, event)]

CLP_parseOptionWithPossibleParameter(name, opt, p, argIdx) ==
    IF CLP_hasNext(p)
    THEN LET maybeParam == CLP_nextArg(p)
             p1 == CLP_getNext(p)
         IN  IF opt # Undefined
             THEN IF isFlagTypeOption(opt)
                  THEN LET p2 == CLP_putBack(p1, argIdx)
                       IN  IF p2.error # "none" THEN p2
                           ELSE CLP_push(p2, CLP_flagArg(name))
                  ELSE CLP_push(p1, optionArg(name, maybeParam))
             ELSE IF startsWith(maybeParam, D)
                  THEN LET p2 == CLP_putBack(p1, argIdx)
                       IN  IF p2.error # "none" THEN p2
                           ELSE CLP_push(p2, CLP_flagArg(name))
                  ELSE CLP_push(p1, optionArg(name, maybeParam))
    ELSE CLP_push(p, CLP_flagArg(name))

RECURSIVE CLP_pushFlags(_, _, _)
\* for (const shortOpt of firstNames)
CLP_pushFlags(p, firstNames, i) ==
    IF i > Len(firstNames) THEN p
    ELSE CLP_pushFlags(CLP_push(p, CLP_flagArg(<<firstNames[i]>>)),
                      firstNames, i + 1)

CLP_parseShortOptionArg(arg, p, argIdx) ==
    LET bareArgs == substr(arg, 1)
        allNames == splitName(bareArgs)
        lastName == lastNameOf(allNames)
        firstNames == firstNamesOf(allNames)
        p1 == CLP_pushFlags(p, firstNames, 1)
    IN  IF hasEq(bareArgs)
        THEN CLP_push(p1, optionArg(lastName, eqOtherJoin(bareArgs)))
        ELSE CLP_parseOptionWithPossibleParameter(
                 lastName, lookup(p1.shortOptions, lastName), p1, argIdx)

CLP_parseLongOptionArg(arg, p, argIdx) ==
    LET bareArg == substr(arg, 2)
        name == splitName(bareArg)
    IN  IF hasEq(bareArg)
        THEN CLP_push(p, optionArg(name, eqOtherJoin(bareArg)))
        ELSE CLP_parseOptionWithPossibleParameter(
                 name, lookup(p.longOptions, name), p, argIdx)

RECURSIVE CLP_parseBreakOutArg(_)
\* while (api.hasNext())
CLP_parseBreakOutArg(p) ==
    IF CLP_hasNext(p)
    THEN CLP_parseBreakOutArg(
             CLP_push(CLP_getNext(p), positionalArg(CLP_nextArg(p))))
    ELSE p

\* hasOwnProperty(this.topCommand.subCommands || {}, arg)
CLP_hasSubCommand(p, name) ==
    \E i \in 1..Len(cmd[p.topCommand].subCommands) :
        cmd[p.topCommand].subCommands[i].name = name

\* this.parsed.push(commandArg(arg)), then this.topCommand is the
\* sub-command of that name.
CLP_parseSubCommand(p, arg) ==
    LET subs == cmd[p.topCommand].subCommands
    IN  [CLP_push(p, commandArg(arg)) EXCEPT
           !.topCommand = subs[CHOOSE i \in 1..Len(subs) : subs[i].name = arg].node]

CLP_parsePositionalArg(p, arg) == CLP_push(p, positionalArg(arg))

CLP_parseArg(arg, p, argIdx) ==
    IF arg = DD THEN CLP_parseBreakOutArg(p)
    ELSE IF arg = D THEN CLP_parsePositionalArg(p, arg)
    ELSE IF startsWith(arg, DD) THEN CLP_parseLongOptionArg(arg, p, argIdx)
    ELSE IF startsWith(arg, D) THEN CLP_parseShortOptionArg(arg, p, argIdx)
    ELSE IF CLP_hasSubCommand(p, arg) THEN CLP_parseSubCommand(p, arg)
    ELSE CLP_parsePositionalArg(p, arg)

\* One round of the loop of parse: const argIdx = idx; idx++;
\* this.parseArg(args[argIdx], api).
CLP_round(p) == CLP_parseArg(args[p.idx + 1], [p EXCEPT !.idx = @ + 1], p.idx)

RECURSIVE CLP_parse(_, _)
\* The parser after at most k rounds of while (idx < args.length).
CLP_parse(p, k) ==
    IF k = 0 \/ p.error # "none" \/ ~(p.idx < Len(args)) THEN p
    ELSE CLP_parse(CLP_round(p), k - 1)

----------------------------------------------------------------------------
(* The first functional draft, prefix Draft_: the context p holds the     *)
(* ParserState of createParserContext and its idx.                         *)

\* The CommandOption of an entry of cmd.options, as the draft keeps it.
Draft_optionOf(entry) == [type |-> entry.type, aliases |-> entry.aliases]

\* The ParserState createParserContext starts from, and its idx.
Draft_emptyState ==
    [longOptions |-> <<>>, shortOptions |-> <<>>, topCommand |-> 1,
     parsed |-> <<>>, idx |-> 0, error |-> "none"]

\* const aliases = [name, ...(opt.aliases || [])], and for a flag-like
\* option aliases.push(...aliases.filter(a => a.length > 1).map(no-)).
Draft_aliasesOf(name, opt) ==
    LET declared == <<name>> \o opt.aliases
        long == SelectSeq(declared, LAMBDA a : Len(a) > 1)
    IN  IF isFlagTypeOption(opt)
        THEN declared \o [i \in 1..Len(long) |-> NoPrefix \o long[i]]
        ELSE declared

\* One round of for (const alias of aliases): the table keeps opt itself.
Draft_registerAlias(p, alias, opt) ==
    IF Len(alias) = 1
    THEN [p EXCEPT !.shortOptions = (alias :> opt) @@ @]
    ELSE IF lookup(p.longOptions, alias) # Undefined
            /\ lookup(p.longOptions, alias).type # opt.type
         THEN [p EXCEPT !.error = "conflict"]
         ELSE [p EXCEPT !.longOptions = (alias :> opt) @@ @]

RECURSIVE Draft_registerAliases(_, _, _, _)
Draft_registerAliases(p, aliases, i, opt) ==
    IF i > Len(aliases) \/ p.error # "none" THEN p
    ELSE Draft_registerAliases(Draft_registerAlias(p, aliases[i], opt),
                            aliases, i + 1, opt)

Draft_addKnownOptionToState(p, name, opt) ==
    Draft_registerAliases(p, Draft_aliasesOf(name, opt), 1, opt)

RECURSIVE Draft_addOptions(_, _, _)
\* for (const [name, opt] of Object.entries(cmd.options || {}))
Draft_addOptions(p, options, i) ==
    IF i > Len(options) \/ p.error # "none" THEN p
    ELSE Draft_addOptions(
             Draft_addKnownOptionToState(p, options[i].name, Draft_optionOf(options[i])),
             options, i + 1)

RECURSIVE Draft_addKnownCommandToState(_, _, _)
RECURSIVE Draft_addSubCommands(_, _, _, _)
Draft_addKnownCommandToState(p, tree, node) ==
    Draft_addSubCommands(Draft_addOptions(p, tree[node].options, 1),
                      tree, tree[node].subCommands, 1)
\* for (const sub of Object.values(cmd.subCommands || {}))
Draft_addSubCommands(p, tree, subs, i) ==
    IF i > Len(subs) \/ p.error # "none" THEN p
    ELSE Draft_addSubCommands(Draft_addKnownCommandToState(p, tree, subs[i].node),
                           tree, subs, i + 1)

\* createParserContext(cmd, args): the tables are filled, or the build throws.
Draft_createParserContext == Draft_addKnownCommandToState(Draft_emptyState, cmd, 1)

Draft_hasNext(p) == p.idx < Len(args)
\* const next = args[idx]
Draft_nextArg(p) == IF p.idx < Len(args) THEN args[p.idx + 1] ELSE PastEnd
Draft_getNext(p) == [p EXCEPT !.idx = @ + 1]
Draft_putBack(p, argIdx) ==
    IF p.idx > argIdx THEN [p EXCEPT !.idx = @ - 1]
    ELSE [p EXCEPT !.error = "underflow"]

\* The event that flag(name) pushes.
Draft_flagArg(name) ==
    [type |-> "flag", name |-> stripNo(name), value |-> ~startsWith(name, NoPrefix)]

\* pushParsed(arg)
Draft_pushParsed(p, event) == [p EXCEPT !.parsed = Append(@, event)]

Draft_parseOptionWithPossibleParameter(name, opt, p, argIdx) ==
    IF Draft_hasNext(p)
    THEN LET maybeParam == Draft_nextArg(p)
             p1 == Draft_getNext(p)
         IN  IF opt # Undefined
             THEN IF isFlagTypeOption(opt)
                  THEN LET p2 == Draft_putBack(p1, argIdx)
                       IN  IF p2.error # "none" THEN p2
                           ELSE Draft_pushParsed(p2, Draft_flagArg(name))
                  ELSE Draft_pushParsed(p1, optionArg(name, maybeParam))
             ELSE IF startsWith(maybeParam, D)
                  THEN LET p2 == Draft_putBack(p1, argIdx)
                       IN  IF p2.error # "none" THEN p2
                           ELSE Draft_pushParsed(p2, Draft_flagArg(name))
                  ELSE Draft_pushParsed(p1, optionArg(name, maybeParam))
    ELSE Draft_pushParsed(p, Draft_flagArg(name))

RECURSIVE Draft_pushFlags(_, _, _)
\* for (const shortOpt of firstNames)
Draft_pushFlags(p, firstNames, i) ==
    IF i > Len(firstNames) THEN p
    ELSE Draft_pushFlags(Draft_pushParsed(p, Draft_flagArg(<<firstNames[i]>>)),
                      firstNames, i + 1)

Draft_parseShortOptionArg(arg, p, argIdx) ==
    LET bareArgs == substr(arg, 1)
        allNames == splitName(bareArgs)
        lastName == lastNameOf(allNames)
        firstNames == firstNamesOf(allNames)
        p1 == Draft_pushFlags(p, firstNames, 1)
    IN  IF hasEq(bareArgs)
        THEN Draft_pushParsed(p1, optionArg(lastName, eqOtherJoin(bareArgs)))
        ELSE Draft_parseOptionWithPossibleParameter(
                 lastName, lookup(p1.shortOptions, lastName), p1, argIdx)

Draft_parseLongOptionArg(arg, p, argIdx) ==
    LET bareArg == substr(arg, 2)
        name == splitName(bareArg)
    IN  IF hasEq(bareArg)
        THEN Draft_pushParsed(p, optionArg(name, eqOtherJoin(bareArg)))
        ELSE Draft_parseOptionWithPossibleParameter(
                 name, lookup(p.longOptions, name), p, argIdx)

RECURSIVE Draft_parseBreakOutArg(_)
\* while (api.hasNext())
Draft_parseBreakOutArg(p) ==
    IF Draft_hasNext(p)
    THEN Draft_parseBreakOutArg(
             Draft_pushParsed(Draft_getNext(p), positionalArg(Draft_nextArg(p))))
    ELSE p

\* hasOwnProperty(state.topCommand.subCommands || {}, name)
Draft_hasSubCommand(p, name) ==
    \E i \in 1..Len(cmd[p.topCommand].subCommands) :
        cmd[p.topCommand].subCommands[i].name = name

\* command(name): the event is pushed, then state.topCommand is the
\* sub-command of that name.
Draft_command(p, name) ==
    LET subs == cmd[p.topCommand].subCommands
    IN  [Draft_pushParsed(p, commandArg(name)) EXCEPT
           !.topCommand = subs[CHOOSE i \in 1..Len(subs) : subs[i].name = name].node]

\* api.push.command(arg)
Draft_parseSubCommand(p, arg) == Draft_command(p, arg)

Draft_parsePositionalArg(p, arg) == Draft_pushParsed(p, positionalArg(arg))

Draft_parseArg(arg, p, argIdx) ==
    IF arg = DD THEN Draft_parseBreakOutArg(p)
    ELSE IF arg = D THEN Draft_parsePositionalArg(p, arg)
    ELSE IF startsWith(arg, DD) THEN Draft_parseLongOptionArg(arg, p, argIdx)
    ELSE IF startsWith(arg, D) THEN Draft_parseShortOptionArg(arg, p, argIdx)
    ELSE IF Draft_hasSubCommand(p, arg) THEN Draft_parseSubCommand(p, arg)
    ELSE Draft_parsePositionalArg(p, arg)

\* One round of the loop of parse: context.next(), which notes argIdx = idx
\* and calls getNext(), then parseArg(arg, api).
Draft_round(p) == Draft_parseArg(Draft_nextArg(p), Draft_getNext(p), p.idx)

RECURSIVE Draft_parse(_, _)
\* The context after at most k rounds of while (context.hasNext()).
Draft_parse(p, k) ==
    IF k = 0 \/ p.error # "none" \/ ~(Draft_hasNext(p)) THEN p
    ELSE Draft_parse(Draft_round(p), k - 1)


----------------------------------------------------------------------------
(* Vocabulary of the properties below.                                     *)

\* The token the next classification step classifies.
arg == nextArg(context)
\* The events a step appended, given the output before and after it.
newEvents == SubSeq(parsed', Len(parsed) + 1, Len(parsed'))
\* A step only appends to the output.
appends == Len(parsed') >= Len(parsed) /\ SubSeq(parsed', 1, Len(parsed)) = parsed
\* The tokens after 0-based position i, each as a positional event.
positionalsAfter(i) == [k \in 1..(Len(args) - i - 1) |-> positionalArg(args[i + 1 + k])]

----------------------------------------------------------------------------
(* C1 *)

\* C1 as stated: once the parse has returned, if the token list holds a
\* token equal to "--", the output ends with one positional event for each
\* token after the first such token, carrying it verbatim, in input order.
C1_AfterFirstDashDash ==
    pc = "done" =>
        \A i \in 1..Len(args) :
            (args[i] = DD /\ \A j \in 1..(i - 1) : args[j] # DD) =>
                /\ Len(parsed) >= Len(args) - i
                /\ SubSeq(parsed, Len(parsed) - (Len(args) - i) + 1, Len(parsed))
                       = positionalsAfter(i - 1)

\* C1, amended: a step that classifies a token equal to "--" appends exactly
\* one positional event per remaining token, carrying it verbatim, in input
\* order, emits nothing for the "--" itself, and leaves the cursor at the end.
C1_ClassifiedDashDash ==
    [][ (InLoop /\ arg = DD) =>
            /\ appends
            /\ newEvents = positionalsAfter(idx)
            /\ idx' = Len(args)
            /\ topCommand' = topCommand ]_vars

\* A breakout that passed an option-like token and a sub-command name through.
C1_Witness ==
    /\ pc = "done"
    /\ cmd = testCommand
    /\ args = << DD, DD \o N_opt1, N_cmd1 >>
    /\ parsed = << [type |-> "positional", value |-> DD \o N_opt1],
                   [type |-> "positional", value |-> N_cmd1] >>


----------------------------------------------------------------------------
(* Vocabulary for option tokens.                                           *)

isLongToken(t) == startsWith(t, DD) /\ t # DD
isShortToken(t) == startsWith(t, D) /\ ~startsWith(t, DD) /\ t # D
isOptionToken(t) == isLongToken(t) \/ isShortToken(t)
\* The token without its leading dashes.
bare(t) == IF isLongToken(t) THEN substr(t, 2) ELSE substr(t, 1)
\* The text before the first "=".
namePortion(t) == splitName(bare(t))
\* The name whose value is decided: the long name, or the last character
\* of a short cluster.
typedName(t) ==
    IF isLongToken(t) THEN namePortion(t) ELSE lastNameOf(namePortion(t))
\* The definition registered under exactly that name, or Undefined.
registered(t) ==
    IF isLongToken(t) THEN lookup(longOptions, typedName(t))
    ELSE lookup(shortOptions, typedName(t))
\* A token follows the one being classified, and which.
hasFollowing == idx + 1 < Len(args)
following == args[idx + 2]
lastNew == parsed'[Len(parsed')]
\* A step that classifies an option token written without "=".
OptionStepNoEq == InLoop /\ isOptionToken(arg) /\ ~hasEq(bare(arg))

----------------------------------------------------------------------------
(* C2 *)

\* C2: in a step that classifies an option token without "=" whose name is
\* registered, when a token follows: a flag or count option appends a flag
\* event and leaves the cursor on the following token (the next step
\* classifies it); any other kind appends an option event whose value is the
\* following token, whatever it is, and moves the cursor past it.
C2_KnownOptionDecision ==
    [][ (OptionStepNoEq /\ registered(arg) # Undefined /\ hasFollowing) =>
            /\ appends
            /\ Len(parsed') > Len(parsed)
            /\ IF registered(arg).type \in {"flag", "count"}
               THEN lastNew.type = "flag" /\ idx' = idx + 1
               ELSE /\ lastNew = [type |-> "option", name |-> typedName(arg),
                                  value |-> following]
                    /\ idx' = idx + 2 ]_vars

\* --opt1 (flag) left --opt2 to the next step; --opt2 (strings) took the
\* sub-command name cmd1 as its value.
C2_Witness ==
    /\ pc = "done"
    /\ cmd = testCommand
    /\ args = << DD \o N_opt1, DD \o N_opt2, N_cmd1 >>
    /\ parsed = << [type |-> "flag", name |-> N_opt1, value |-> TRUE],
                   [type |-> "option", name |-> N_opt2, value |-> N_cmd1] >>

----------------------------------------------------------------------------
(* C3 *)

\* C3: in a step that classifies an option token without "=" whose name is
\* not registered, when a token follows: if that token starts with "-" a
\* flag event is appended and the cursor is left on it; otherwise an option
\* event with that token as value is appended and the cursor moves past it.
C3_UnknownOptionDecision ==
    [][ (OptionStepNoEq /\ registered(arg) = Undefined /\ hasFollowing) =>
            /\ appends
            /\ Len(parsed') > Len(parsed)
            /\ IF startsWith(following, D)
               THEN lastNew.type = "flag" /\ idx' = idx + 1
               ELSE /\ lastNew = [type |-> "option", name |-> typedName(arg),
                                  value |-> following]
                    /\ idx' = idx + 2 ]_vars

\* Unknown c (last of -abc) before --opt1 is a flag; unknown --a before pos1
\* takes it as its value.
C3_Witness ==
    /\ pc = "parsing"
    /\ cmd = testCommand
    /\ args = << D \o N_a \o N_b \o N_c, DD \o N_a, N_pos1 >>
    /\ idx = 3
    /\ parsed = << [type |-> "flag", name |-> N_a, value |-> TRUE],
                   [type |-> "flag", name |-> N_b, value |-> TRUE],
                   [type |-> "flag", name |-> N_c, value |-> TRUE],
                   [type |-> "option", name |-> N_a, value |-> N_pos1] >>


----------------------------------------------------------------------------
(* C4 *)

\* The primary names of the options of kind flag declared anywhere in cmd.
flagNames ==
    UNION { { cmd[n].options[i].name :
                i \in { j \in 1..Len(cmd[n].options) : cmd[n].options[j].type = "flag" } } :
            n \in 1..Len(cmd) }
\* Those of at least two characters that hold no "=" and do not themselves
\* begin with "no-".
longFlagNames ==
    { x \in flagNames : Len(x) >= 2 /\ ~hasEq(x) /\ ~startsWith(x, NoPrefix) }

\* The flag events for name x.
flagTrue(x) == [type |-> "flag", name |-> x, value |-> TRUE]
flagFalse(x) == [type |-> "flag", name |-> x, value |-> FALSE]

\* C4 as stated, its first part: for every declared flag option x, a step
\* that classifies --x appends exactly flag(x, true) and one that classifies
\* --no-x appends exactly flag(x, false), whatever follows.
C4_EveryFlagName ==
    [][ InLoop =>
            \A x \in flagNames :
                /\ arg = DD \o x => newEvents = << flagTrue(x) >>
                /\ arg = DD \o NoPrefix \o x => newEvents = << flagFalse(x) >> ]_vars

\* C4, amended: the same for the declared flag options whose name has at
\* least two characters, holds no "=" and does not begin with "no-"; and in
\* general a flag event appended for a long option token has the typed name
\* without a leading "no-" and value false exactly when the typed name began
\* with "no-", while every flag event appended for a short cluster has a name
\* of at most one character and value true.
C4_FlagNegation ==
    [][ InLoop =>
            /\ \A x \in longFlagNames :
                /\ arg = DD \o x =>
                      appends /\ newEvents = << flagTrue(x) >> /\ idx' = idx + 1
                /\ arg = DD \o NoPrefix \o x =>
                      appends /\ newEvents = << flagFalse(x) >> /\ idx' = idx + 1
            /\ (isLongToken(arg) /\ Len(parsed') > Len(parsed) /\ lastNew.type = "flag") =>
                  IF startsWith(typedName(arg), NoPrefix)
                  THEN lastNew = flagFalse(substr(typedName(arg), 3))
                  ELSE lastNew = flagTrue(typedName(arg))
            /\ isShortToken(arg) =>
                  \A k \in 1..Len(newEvents) :
                      newEvents[k].type = "flag" =>
                          newEvents[k].value = TRUE /\ Len(newEvents[k].name) <= 1 ]_vars

\* --no-opt1 gave flag(opt1, false), the cluster -no-a four true flags n, o,
\* -, a, and --opt1 gave flag(opt1, true).
C4_Witness ==
    /\ pc = "done"
    /\ cmd = testCommand
    /\ args = << DD \o NoPrefix \o N_opt1, D \o NoPrefix \o N_a, DD \o N_opt1 >>
    /\ parsed = << flagFalse(N_opt1), flagTrue(<<"n">>), flagTrue(<<"o">>),
                   flagTrue(<<"-">>), flagTrue(N_a), flagTrue(N_opt1) >>

----------------------------------------------------------------------------
(* C5 *)

\* What the value decision gives for the last character of the cluster being
\* classified.
lastOfCluster ==
    IF ~hasFollowing THEN flagTrue(typedName(arg))
    ELSE IF registered(arg) # Undefined
         THEN IF registered(arg).type \in {"flag", "count"}
              THEN flagTrue(typedName(arg))
              ELSE [type |-> "option", name |-> typedName(arg), value |-> following]
         ELSE IF startsWith(following, D)
              THEN flagTrue(typedName(arg))
              ELSE [type |-> "option", name |-> typedName(arg), value |-> following]

\* C5: a step that classifies a short cluster -c1...cn without "=" appends n
\* events: flag(ci, true) for each i < n in order, whatever kind the schema
\* declares for ci, and for cn the event of the value decision; only an
\* option event for cn moves the cursor past the following token.  And
\* -abc trot, with a and b flags and c a string option, yields flag(a, true),
\* flag(b, true), option(c, trot).
C5_ShortCluster ==
    /\ [][ (OptionStepNoEq /\ isShortToken(arg)) =>
              LET names == namePortion(arg)
                  n == Len(names)
              IN  /\ appends
                  /\ Len(newEvents) = n
                  /\ \A i \in 1..(n - 1) : newEvents[i] = flagTrue(<<names[i]>>)
                  /\ newEvents[n] = lastOfCluster
                  /\ idx' = IF newEvents[n].type = "option" THEN idx + 2 ELSE idx + 1 ]_vars
    /\ [](( /\ pc = "done"
            /\ cmd = prefixCommand
            /\ args = << D \o N_a \o N_b \o N_c, N_trot >> ) =>
              parsed = << flagTrue(N_a), flagTrue(N_b),
                          [type |-> "option", name |-> N_c, value |-> N_trot] >>)

\* In testCommand b is declared a string option, and as a non-last character
\* of -abc it is still a flag that takes nothing; the unknown c took pos1.
C5_Witness ==
    /\ pc = "done"
    /\ cmd = testCommand
    /\ args = << D \o N_a \o N_b \o N_c, N_pos1 >>
    /\ parsed = << flagTrue(N_a), flagTrue(N_b),
                   [type |-> "option", name |-> N_c, value |-> N_pos1] >>


----------------------------------------------------------------------------
(* C6 *)

\* The registered long aliases that the typed name is a proper prefix of.
prefixMatches(name) ==
    { a \in DOMAIN longOptions : Len(a) > Len(name) /\ startsWith(a, name) }

\* C6: in a step that classifies a long option token without "=" whose name
\* is not registered but is a proper prefix of exactly one registered long
\* alias, when a token follows, the value decision is that of the alias's
\* definition: a flag or count definition appends a flag event and leaves the
\* cursor on the following token, any other kind appends an option event
\* with the following token as value.
C6_UniquePrefix ==
    [][ ( /\ OptionStepNoEq
          /\ isLongToken(arg)
          /\ registered(arg) = Undefined
          /\ Cardinality(prefixMatches(typedName(arg))) = 1
          /\ hasFollowing ) =>
            LET alias == CHOOSE a \in prefixMatches(typedName(arg)) : TRUE
            IN  IF longOptions[alias].type \in {"flag", "count"}
                THEN lastNew.type = "flag" /\ idx' = idx + 1
                ELSE /\ lastNew = [type |-> "option", name |-> typedName(arg),
                                   value |-> following]
                     /\ idx' = idx + 2 ]_vars

----------------------------------------------------------------------------
(* C7 *)

\* C7 as stated: the option or flag event appended for an option token whose
\* name is registered carries the primary name of the registered definition.
C7_CanonicalName ==
    [][ (OptionStepNoEq /\ registered(arg) # Undefined) =>
            /\ Len(parsed') > Len(parsed)
            /\ lastNew.name = registered(arg).name ]_vars

\* The name an event of the given type carries for a typed name.
nameAsTyped(type, typed) ==
    IF type = "flag" /\ startsWith(typed, NoPrefix) THEN substr(typed, 3) ELSE typed

\* C7, amended: the option or flag event appended for an option token whose
\* name is registered carries the name as typed (an alias stays the alias;
\* for a flag event a leading "no-" is dropped), so it carries the primary
\* name exactly when the primary name is what was typed.
C7_AliasKept ==
    [][ (OptionStepNoEq /\ registered(arg) # Undefined) =>
            /\ appends
            /\ Len(parsed') > Len(parsed)
            /\ lastNew.type \in {"option", "flag"}
            /\ lastNew.name = nameAsTyped(lastNew.type, typedName(arg))
            /\ (lastNew.name = registered(arg).name) <=>
                   (nameAsTyped(lastNew.type, typedName(arg)) = registered(arg).name) ]_vars

\* --opt4, the alias of flag a, gave a flag event named opt4.
C7_Witness ==
    /\ pc = "done"
    /\ cmd = testCommand
    /\ args = << DD \o N_opt4 >>
    /\ lookup(longOptions, N_opt4).name = N_a
    /\ parsed = << flagTrue(N_opt4) >>

----------------------------------------------------------------------------
(* C8 *)

\* C8: every step that classifies an option token appends events of type
\* option or flag only, each named as typed: the last one by the long name
\* or the cluster's last character (the text before the first "=", and for a
\* flag without one leading "no-"), the earlier ones of a cluster by its
\* earlier characters.  So --opt4 yields a flag named opt4, not a, and
\* --foob trot yields an option named foob, not foobar.
C8_NameAsTyped ==
    /\ [][ (InLoop /\ isOptionToken(arg)) =>
              /\ appends
              /\ Len(parsed') > Len(parsed)
              /\ lastNew.type \in {"option", "flag"}
              /\ lastNew.name = nameAsTyped(lastNew.type, typedName(arg))
              /\ isLongToken(arg) => Len(newEvents) = 1
              /\ isShortToken(arg) =>
                    /\ Len(newEvents) = Len(firstNamesOf(namePortion(arg))) + 1
                    /\ \A i \in 1..(Len(newEvents) - 1) :
                          /\ newEvents[i].type = "flag"
                          /\ newEvents[i].name = <<namePortion(arg)[i]>> ]_vars
    /\ [](( /\ pc = "done"
            /\ cmd = testCommand
            /\ args = << DD \o N_opt4 >> ) => parsed = << flagTrue(N_opt4) >>)
    /\ [](( /\ pc = "done"
            /\ cmd = prefixCommand
            /\ args = << DD \o N_foob, N_trot >> ) =>
              parsed = << [type |-> "option", name |-> N_foob, value |-> N_trot] >>)

\* The abbreviation --foob stayed foob, and the cluster -av=x named its
\* events a and v.
C8_Witness ==
    /\ pc = "done"
    /\ cmd = prefixCommand
    /\ args = << DD \o N_foob, N_trot, D \o N_a \o N_v \o <<"=", "x">> >>
    /\ parsed = << [type |-> "option", name |-> N_foob, value |-> N_trot],
                   flagTrue(N_a),
                   [type |-> "option", name |-> N_v, value |-> <<"x">>] >>


----------------------------------------------------------------------------
(* C9 *)

\* The sub-commands of node n named t (at most one), as nodes of cmd.
subNodes(n, t) ==
    { cmd[n].subCommands[i].node :
        i \in { j \in 1..Len(cmd[n].subCommands) : cmd[n].subCommands[j].name = t } }

\* C9 as stated, its first part: a step that classifies a token naming a
\* sub-command of the active command appends a command event carrying the
\* token and makes that sub-command the active command.
C9_EverySubCommandName ==
    [][ (InLoop /\ subNodes(topCommand, arg) # {}) =>
            /\ parsed' = Append(parsed, [type |-> "command", name |-> arg])
            /\ topCommand' \in subNodes(topCommand, arg) ]_vars

\* C9, amended: a step that classifies a token not starting with "-" that
\* names a sub-command of the active command appends a command event
\* carrying the token and makes that sub-command the active command; a token
\* not starting with "-" that names no sub-command of the active command
\* (even if it names one of the root or of another node) is appended as a
\* positional and the active command stays; and the active command changes
\* in no other step.  And in prefixCommand, where cmd1 holds flag b,
\* [cmd1, -b] yields command(cmd1), flag(b, true).
C9_Descent ==
    /\ [][ (InLoop /\ ~startsWith(arg, D)) =>
              /\ idx' = idx + 1
              /\ IF subNodes(topCommand, arg) # {}
                 THEN /\ parsed' = Append(parsed, [type |-> "command", name |-> arg])
                      /\ topCommand' \in subNodes(topCommand, arg)
                 ELSE /\ parsed' = Append(parsed, [type |-> "positional", value |-> arg])
                      /\ topCommand' = topCommand ]_vars
    /\ [][ topCommand' # topCommand =>
              (InLoop /\ ~startsWith(arg, D) /\ subNodes(topCommand, arg) # {}) ]_vars
    /\ [](( /\ pc = "done"
            /\ cmd = prefixCommand
            /\ args = << N_cmd1, D \o N_b >> ) =>
              parsed = << [type |-> "command", name |-> N_cmd1], flagTrue(N_b) >>)

\* After the descent into cmd1 the root-level name cmd1 is a positional, and
\* cmd2, a sub-command of cmd1, is a command.
C9_Witness ==
    /\ pc = "done"
    /\ cmd = testCommand
    /\ args = << N_cmd1, N_cmd1, N_cmd2 >>
    /\ topCommand = 3
    /\ parsed = << [type |-> "command", name |-> N_cmd1],
                   [type |-> "positional", value |-> N_cmd1],
                   [type |-> "command", name |-> N_cmd2] >>

----------------------------------------------------------------------------
(* C10 *)

RECURSIVE plainEvents(_, _)
\* The events of the tokens from position i on, none read as an option,
\* with node n active at position i.
plainEvents(n, i) ==
    IF i > Len(args) THEN <<>>
    ELSE IF subNodes(n, args[i]) # {}
         THEN << [type |-> "command", name |-> args[i]] >>
                  \o plainEvents(CHOOSE m \in subNodes(n, args[i]) : TRUE, i + 1)
         ELSE << [type |-> "positional", value |-> args[i]] >> \o plainEvents(n, i + 1)

noDashTokens == \A i \in 1..Len(args) : ~startsWith(args[i], D)

\* C10: when no token starts with "-", the output holds exactly one event
\* per token consumed so far, in input order, a command event where the
\* token names a sub-command of the command active at that point and a
\* positional event carrying the token otherwise; a returned parse has
\* consumed every token.
C10_OneEventPerToken ==
    (noDashTokens /\ pc \in {"parsing", "done"}) =>
        /\ parsed = SubSeq(plainEvents(1, 1), 1, idx)
        /\ Len(parsed) = idx
        /\ pc = "done" => idx = Len(args)

\* pos1 is a positional, cmd1 and then cmd2 are commands.
C10_Witness ==
    /\ pc = "done"
    /\ cmd = testCommand
    /\ args = << N_pos1, N_cmd1, N_cmd2 >>
    /\ parsed = << [type |-> "positional", value |-> N_pos1],
                   [type |-> "command", name |-> N_cmd1],
                   [type |-> "command", name |-> N_cmd2] >>

----------------------------------------------------------------------------
(* The cursor as a resolver may drive it.  context.next() hands a resolver *)
(* the ParserApi of one step, whose putBack is bound to argIdx; the        *)
(* resolver then calls hasNext, getNext and putBack in any order until it  *)
(* returns.  step.calls lists the calls of getNext and putBack made        *)
(* through the ParserApi so far.                                           *)

\* The most calls a resolver makes through one ParserApi.
MaxCalls == 4

InitApi ==
    /\ cmd = testCommand
    /\ args \in SeqsUpTo({N_cmd1, N_pos1}, MaxArgs)
    /\ LET made == createParserContext(cmd, emptyState)
       IN  /\ idx = made.idx
           /\ parsed = made.parsed
           /\ topCommand = made.topCommand
           /\ longOptions = made.longOptions
           /\ shortOptions = made.shortOptions
           /\ knownOptionNames = made.knownOptionNames
           /\ pc = made.pc
           /\ error = made.error
    /\ earlier = NoEarlier
    /\ step = NoStep
    /\ completion = NoCompletion
    /\ expected = "unset"
    /\ steps = 0

\* next(): const argIdx = idx; const arg = getNext().
ApiNext ==
    /\ pc = "parsing"
    /\ ~step.active
    /\ hasNext(context)
    /\ idx' = getNext(context).idx
    /\ step' = [active |-> TRUE, argIdx |-> idx, calls |-> <<>>]
    /\ UNCHANGED <<cmd, args, parsed, topCommand, longOptions, shortOptions,
                   knownOptionNames, pc, error, earlier, completion, expected,
                   steps>>

\* api.getNext(), which the resolvers call when api.hasNext() holds.
ApiGetNext ==
    /\ pc = "parsing"
    /\ step.active
    /\ Len(step.calls) < MaxCalls
    /\ hasNext(context)
    /\ idx' = getNext(context).idx
    /\ step' = [step EXCEPT !.calls = Append(@, "getNext")]
    /\ UNCHANGED <<cmd, args, parsed, topCommand, longOptions, shortOptions,
                   knownOptionNames, pc, error, earlier, completion, expected,
                   steps>>

\* api.putBack(), that is putBack(argIdx).
ApiPutBack ==
    /\ pc = "parsing"
    /\ step.active
    /\ Len(step.calls) < MaxCalls
    /\ idx' = putBack(context, step.argIdx).idx
    /\ pc' = IF putBack(context, step.argIdx).error THEN "threw" ELSE "parsing"
    /\ error' = IF putBack(context, step.argIdx).error THEN "underflow" ELSE "none"
    /\ step' = [step EXCEPT !.calls = Append(@, "putBack")]
    /\ UNCHANGED <<cmd, args, parsed, topCommand, longOptions, shortOptions,
                   knownOptionNames, earlier, completion, expected, steps>>

\* The resolver returns to the loop of parseResults.
ApiEndStep ==
    /\ pc = "parsing"
    /\ step.active
    /\ step' = NoStep
    /\ UNCHANGED <<cmd, args, idx, parsed, topCommand, longOptions,
                   shortOptions, knownOptionNames, pc, error,
                   earlier, completion, expected, steps>>

ApiReturn ==
    /\ ~step.active
    /\ Return

NextApi ==
    \/ ApiNext
    \/ ApiGetNext
    \/ ApiPutBack
    \/ ApiEndStep
    \/ ApiReturn

SpecApi == InitApi /\ [][NextApi]_vars

----------------------------------------------------------------------------
(* Completion: getCompletionSuggestions(cmd, args) parses args.slice(1)    *)
(* with parseResults and computes its suggestions from the context that    *)
(* returns.  The raw token list is the program name followed by args.      *)

ProgramName == <<"g", "a", "l", "d", "r">>
rawArgs == <<ProgramName>> \o args
\* args.slice(1)
slice1(raw) == SubSeq(raw, 2, Len(raw))

\* getOption: name.length === 1 ? getShortOption(name) : getLongOption(name)
getOption(name) ==
    IF Len(name) = 1 THEN getShortOption(name) ELSE getLongOption(name)

\* isOptionArg (every option event has a name and a value)
isOptionArg(a) == a.type = "option"

isSingularOpt(opt) == opt.type \notin {"dirs", "files", "numbers", "strings"}

\* getOptionsNotUsed.  isSingularOpt reads the type of what the lookup
\* returned, which throws a TypeError when the lookup returned nothing.
optionArgsPassed == SelectSeq(parsed, LAMBDA a : a.type = "option")
optionsPassed ==
    [i \in 1..Len(optionArgsPassed) |-> getOption(optionArgsPassed[i].name)]
optionNamesConsumed ==
    { optionsPassed[i].name :
        i \in { j \in 1..Len(optionsPassed) : isSingularOpt(optionsPassed[j]) } }
getOptionsNotUsed ==
    IF \E i \in 1..Len(optionsPassed) : optionsPassed[i] = Undefined
    THEN [threw |-> TRUE, value |-> <<>>]
    ELSE [threw |-> FALSE,
          value |-> SelectSeq(knownOptionNames,
                              LAMBDA n : n \notin optionNamesConsumed)]

\* Object.keys((topCommand && topCommand.subCommands) || {})
commandNames ==
    [i \in 1..Len(cmd[topCommand].subCommands) |-> cmd[topCommand].subCommands[i].name]

\* getExpectedParameterType(args, context), args the raw token list.
\* isOptionArg reads the type of the last event and isFlagTypeOption the
\* type of the definition: each throws a TypeError when there is none.
getExpectedParameterType(raw) ==
    IF Len(raw) = 0 \/ raw[Len(raw)] # Empty THEN "null"
    ELSE IF Len(parsed) = 0 THEN "TypeError"
    ELSE IF ~isOptionArg(parsed[Len(parsed)]) THEN "null"
    ELSE LET tailOpt == getOption(parsed[Len(parsed)].name)
         IN  IF tailOpt = Undefined THEN "TypeError"
             ELSE IF isFlagTypeOption(tailOpt) THEN "null"
             ELSE tailOpt.type

\* getCompletionSuggestions, after its call of parseResults has returned.
\* The object it returns reads lookingForFiles, a name that is declared
\* nowhere (its declaration is a comment): evaluating it throws a
\* ReferenceError once the words are built.
Complete ==
    /\ pc = "done"
    /\ args = slice1(rawArgs)
    /\ completion.status = "none"
    /\ completion' =
         IF getOptionsNotUsed.threw
         THEN [status |-> "TypeError", reached |-> "getOptionsNotUsed",
               optionsNotUsed |-> <<>>, commands |-> <<>>, words |-> <<>>]
         ELSE IF getExpectedParameterType(rawArgs) = "TypeError"
         THEN [status |-> "TypeError", reached |-> "getExpectedParameterType",
               optionsNotUsed |-> getOptionsNotUsed.value,
               commands |-> commandNames, words |-> <<>>]
         ELSE [status |-> "ReferenceError", reached |-> "return",
               optionsNotUsed |-> getOptionsNotUsed.value,
               commands |-> commandNames,
               words |-> getOptionsNotUsed.value \o commandNames]
    /\ UNCHANGED <<cmd, args, idx, parsed, topCommand, longOptions,
                   shortOptions, knownOptionNames, pc, error,
                   earlier, step, expected, steps>>

\* getExpectedParameterType applied to the raw token list and the context
\* that parseResults returned.
ExpectedParameterType ==
    /\ pc = "done"
    /\ expected = "unset"
    /\ expected' = getExpectedParameterType(rawArgs)
    /\ UNCHANGED <<cmd, args, idx, parsed, topCommand, longOptions,
                   shortOptions, knownOptionNames, pc, error,
                   earlier, step, completion, steps>>

NextCompletion ==
    \/ Next
    \/ Complete
    \/ ExpectedParameterType

SpecCompletion == Init /\ [][NextCompletion]_vars

----------------------------------------------------------------------------
(* C11 *)

\* The call that has just ended has the input of the first call of the series.
sameInput == earlier.runs > 1 /\ cmd = earlier.cmd /\ args = earlier.args
ended == pc \in {"done", "threw"}

\* C11: parsing carries no state from one invocation to the next.  In a
\* series of calls of parse, a call whose schema and token list are those
\* of the first call ends as the first call did: it returns the same event
\* sequence, or it throws the same error, whatever was parsed in between.
C11_SameInputSameEvents ==
    (ended /\ sameInput) =>
        /\ parsed = earlier.parsed
        /\ pc = earlier.pc
        /\ error = earlier.error

\* The third call of a series parses --food pos1 under testCommand as the
\* first call did, after a call under another schema.
C11_Witness ==
    /\ ended /\ sameInput
    /\ earlier.runs = MaxRuns
    /\ earlier.mixed
    /\ cmd = testCommand
    /\ args = << DD \o N_food, N_pos1 >>
    /\ parsed = << optionArg(N_food, N_pos1) >>

----------------------------------------------------------------------------
(* C12 *)

\* The option definitions of the command tree, from every node.
optionDefs ==
    UNION { { cmd[n].options[i] : i \in 1..Len(cmd[n].options) } : n \in 1..Len(cmd) }
\* The names a definition answers to: its name and its declared aliases.
declaredAliases(o) ==
    {o.name} \cup { o.aliases[i] : i \in 1..Len(o.aliases) }
\* Its long aliases: the declared ones of two characters or more and, for a
\* flag or a count, their no-<alias> variants.
longAliasesOf(o) ==
    LET long == { a \in declaredAliases(o) : Len(a) >= 2 }
    IN  long \cup (IF o.type \in {"flag", "count"}
                   THEN { NoPrefix \o a : a \in long } ELSE {})
\* Two definitions of different kinds answer to one long alias.
longAliasClash ==
    \E o1 \in optionDefs, o2 \in optionDefs :
        /\ o1.type # o2.type
        /\ longAliasesOf(o1) \cap longAliasesOf(o2) # {}

\* C12: when two option definitions of different kinds anywhere in the
\* command tree answer to the same long alias, a synthesized no-<alias>
\* included, parse has thrown the conflicting-definitions error with the
\* cursor on the first token and no event produced; when every long alias
\* that is registered twice has one kind, that error is not thrown.
C12_ConflictFailsBuild ==
    IF longAliasClash
    THEN pc = "threw" /\ error = "conflict" /\ idx = 0 /\ parsed = <<>>
    ELSE error # "conflict"

\* The build threw for no-opt1, the variant of flag opt1 that is also the
\* name of a string option, with tokens waiting.
C12_Witness ==
    /\ cmd = negationCommand
    /\ longAliasClash
    /\ args = << DD \o N_opt1, N_cmd1 >>
    /\ pc = "threw"
    /\ error = "conflict"
    /\ parsed = <<>>

----------------------------------------------------------------------------
(* C13 *)

\* Every alias of a definition, one-character aliases included.
allAliasesOf(o) == declaredAliases(o) \cup longAliasesOf(o)
\* Two definitions of different kinds answer to one alias.
aliasClash ==
    \E o1 \in optionDefs, o2 \in optionDefs :
        /\ o1.type # o2.type
        /\ allAliasesOf(o1) \cap allAliasesOf(o2) # {}

\* C13 as stated: in a registry that was built, no alias, one-character
\* aliases included, is shared by two option definitions of different
\* kinds.
C13_NoAliasOfTwoKinds ==
    error # "conflict" => ~aliasClash

----------------------------------------------------------------------------
(* C14 *)

\* C14: the only error a parse raises is the conflicting-definitions error
\* of the registry build, raised before the first token.  Once the registry
\* is built, whatever the tokens are (empty tokens, unknown options, an
\* option as the last token, -=v, --=v), the cursor error is never raised,
\* and the parse returns with every token consumed.
C14_NoErrorOnceBuilt ==
    /\ error # "underflow"
    /\ pc = "threw" => (error = "conflict" /\ idx = 0)
    /\ pc # "threw" => error = "none"
    /\ pc = "done" => idx = Len(args)

\* The parse of -=v --=v "" has returned: two option events with an empty
\* name, and the empty token as a positional.
C14_Witness ==
    /\ cmd = kindsCommand
    /\ args = << D \o EqV, DD \o EqV, Empty >>
    /\ pc = "done"
    /\ error = "none"
    /\ parsed = << optionArg(Empty, <<"v">>), optionArg(Empty, <<"v">>),
                   positionalArg(Empty) >>

----------------------------------------------------------------------------
(* C15 *)

\* How many calls of this name the resolver has made in the step.
callsOf(name) == Cardinality({ i \in 1..Len(step.calls) : step.calls[i] = name })
putBackMoved == idx' = idx - 1 /\ pc' = "parsing" /\ error' = "none"
putBackThrew == idx' = idx /\ pc' = "threw" /\ error' = "underflow"

\* C15 as stated: a call of putBack succeeds when the step has consumed a
\* lookahead token and has not put a token back before; any other call of
\* putBack raises the cursor error and leaves the cursor where it was.
C15_OnceAfterLookahead ==
    [][ApiPutBack =>
          IF callsOf("getNext") >= 1 /\ callsOf("putBack") = 0
          THEN putBackMoved
          ELSE putBackThrew]_vars

\* C15, amended: a call of putBack succeeds exactly when the step has put
\* back fewer tokens than it has consumed, the classified token counted
\* with the lookahead tokens, and then moves the cursor back by one; any
\* other call raises the cursor error and leaves the cursor where it was.
C15_PutBackWhatWasConsumed ==
    [][ApiPutBack =>
          IF callsOf("putBack") < 1 + callsOf("getNext")
          THEN putBackMoved
          ELSE putBackThrew]_vars

\* After one lookahead a second putBack has succeeded: the cursor is back
\* where the step began, on the classified token.
C15_Witness ==
    /\ step.active
    /\ step.calls = << "getNext", "putBack", "putBack" >>
    /\ idx = step.argIdx
    /\ pc = "parsing"
    /\ error = "none"

----------------------------------------------------------------------------
(* C16 *)

\* The definition an option event or a flag event resolves to.
resolved(e) == getOption(e.name)
pluralKinds == {"strings", "numbers", "files", "dirs"}
\* The primary names that the events of the parse have used up: those of
\* the single-valued definitions that an option event or a flag event
\* resolves to.
usedUp ==
    { resolved(parsed[i]).name :
        i \in { j \in 1..Len(parsed) :
                  /\ parsed[j].type \in {"option", "flag"}
                  /\ resolved(parsed[j]) # Undefined
                  /\ resolved(parsed[j]).type \notin pluralKinds } }
declaredNames == { knownOptionNames[i] : i \in 1..Len(knownOptionNames) }

\* C16 as stated: the option names completion offers are the declared
\* primary names less those of the single-valued definitions that an
\* option event or a flag event of the parse resolves to.
C16_OptionsOffered ==
    completion.status # "none" =>
        /\ completion.reached # "getOptionsNotUsed"
        /\ { completion.optionsNotUsed[i] : i \in 1..Len(completion.optionsNotUsed) }
               = declaredNames \ usedUp

----------------------------------------------------------------------------
(* C17 *)

lastRawIsEmpty == rawArgs[Len(rawArgs)] = Empty
lastEvent == parsed[Len(parsed)]

\* C17 as stated: the expected-parameter computation returns the kind of
\* the definition that the last event resolves to when the last raw token
\* is empty, the last event is an option event and that definition takes a
\* value; it returns null in every other case, the case of an option that
\* the schema does not declare included.
C17_ExpectedParameter ==
    expected # "unset" =>
        expected =
            IF /\ lastRawIsEmpty
               /\ Len(parsed) > 0
               /\ lastEvent.type = "option"
               /\ resolved(lastEvent) # Undefined
               /\ resolved(lastEvent).type \notin {"flag", "count"}
            THEN resolved(lastEvent).type
            ELSE "null"

----------------------------------------------------------------------------
(* C18 *)

\* C18 as stated: completion returns, as its candidate words, the option
\* names not yet used followed by the names of the sub-commands of the
\* node that was active when the parse of the tokens after the program
\* name ended.
C18_WordsReturned ==
    completion.status # "none" =>
        /\ completion.status = "returned"
        /\ completion.words = completion.optionsNotUsed \o commandNames

----------------------------------------------------------------------------
(* C19 *)

optionEvents(events) ==
    \A i \in 1..Len(events) : events[i].type \in {"flag", "option"}

\* C19: a step handles its token by the first rule that matches, of:
\* exactly "--" (the tokens after it become positionals), exactly "-" (a
\* positional "-", the token after it left in the input), a "--" prefix
\* (one flag or option event), a "-" prefix (flag and option events only),
\* the name of a sub-command of the active command (a command event), and
\* otherwise a positional.  So a token that starts with "-" and is neither
\* "-" nor "--" yields no positional and no command event and leaves the
\* active command alone, even if a sub-command has that very name.
C19_FirstMatchingRule ==
    [][ InLoop =>
          /\ appends
          /\ IF arg = DD
             THEN newEvents = positionalsAfter(idx) /\ idx' = Len(args)
             ELSE IF arg = D
             THEN newEvents = << positionalArg(D) >> /\ idx' = idx + 1
             ELSE IF startsWith(arg, DD)
             THEN /\ Len(newEvents) = 1
                  /\ optionEvents(newEvents)
                  /\ topCommand' = topCommand
             ELSE IF startsWith(arg, D)
             THEN /\ Len(newEvents) >= 1
                  /\ optionEvents(newEvents)
                  /\ topCommand' = topCommand
             ELSE IF subNodes(topCommand, arg) # {}
             THEN newEvents = << commandArg(arg) >> /\ idx' = idx + 1
             ELSE /\ newEvents = << positionalArg(arg) >>
                  /\ idx' = idx + 1
                  /\ topCommand' = topCommand ]_vars

\* Under prefixCommand, whose root has a sub-command named -b: -b is the
\* flag b and the root stays active; the "-" after it is a positional that
\* leaves trot to be classified, as a positional.
C19_Witness ==
    /\ cmd = prefixCommand
    /\ args = << D \o N_b, D, N_trot >>
    /\ pc = "done"
    /\ topCommand = 1
    /\ parsed = << flagTrue(N_b), positionalArg(D), positionalArg(N_trot) >>

----------------------------------------------------------------------------
(* C20 *)

\* C20: every parse terminates.  A round of the loop ends with the cursor
\* beyond where the round began and within the token list: it is one or
\* two tokens further, or at the end after "--".  So the rounds taken never
\* outnumber the tokens consumed, nor the tokens there are, and the parse
\* returns or has thrown.
C20_Terminates ==
    /\ [][ InLoop =>
              /\ idx' > idx
              /\ idx' <= Len(args)
              /\ (arg # DD => idx' \in {idx + 1, idx + 2})
              /\ steps' = steps + 1 ]_vars
    /\ [](steps <= idx /\ idx <= Len(args))
    /\ <>(pc \in {"done", "threw"})

\* Two parses of two tokens: under testCommand, where no option is named
\* food, --food took pos1 as its value in one round; under prefixCommand,
\* where food is a flag, pos1 was put back and took a round of its own.
C20_Witness ==
    /\ args = << DD \o N_food, N_pos1 >>
    /\ pc = "done"
    /\ idx = 2
    /\ \/ cmd = testCommand /\ steps = 1 /\ Len(parsed) = 1
       \/ cmd = prefixCommand /\ steps = 2 /\ Len(parsed) = 2

----------------------------------------------------------------------------
(* C21 *)

\* The position (1-based) of the token that the j-th event of a step is
\* made from: after "--" the j-th token that follows it, and else the
\* classified token.
origin(j) == IF arg = DD THEN idx + 1 + j ELSE idx + 1
\* Event e is made from the token at position k: a positional carries it, a
\* command is named by it, a flag is named by its long name (less "no-") or
\* by a character of its cluster, an option is named by its long name or
\* by the last character of its cluster and has the value after the "=" or
\* the token at position k + 1.
comesFrom(e, k) ==
    IF e.type = "positional" THEN e.value = args[k]
    ELSE IF e.type = "command" THEN e.name = args[k]
    ELSE IF e.type = "flag"
    THEN /\ isOptionToken(args[k])
         /\ IF isLongToken(args[k])
            THEN e.name = stripNo(namePortion(args[k]))
            ELSE \E i \in 1..Len(namePortion(args[k])) :
                     e.name = << namePortion(args[k])[i] >>
    ELSE /\ isOptionToken(args[k])
         /\ e.name = typedName(args[k])
         /\ IF hasEq(bare(args[k]))
            THEN e.value = eqOtherJoin(bare(args[k]))
            ELSE k < Len(args) /\ e.value = args[k + 1] /\ idx' = k + 1

\* C21: the output is append-only and in token order.  A step leaves the
\* output it found as a prefix of the new output; the events it appends are
\* made, in order, from tokens at positions that do not decrease, all of
\* them tokens the step consumed, which lie after every token consumed
\* before; and the output changes in no other way.
C21_AppendOnlyInOrder ==
    /\ [][ InLoop =>
              /\ appends
              /\ idx' > idx
              /\ \A j \in 1..Len(newEvents) :
                    /\ origin(j) > idx
                    /\ origin(j) <= idx'
                    /\ comesFrom(newEvents[j], origin(j)) ]_vars
    /\ [][ ~InLoop => parsed' = parsed ]_vars

\* -abc made three flags, the "--" it put back made a positional of pos1:
\* four events in the order of the tokens they are made from.
C21_Witness ==
    /\ cmd = testCommand
    /\ args = << D \o N_a \o N_b \o N_c, DD, N_pos1 >>
    /\ pc = "done"
    /\ parsed = << flagTrue(N_a), flagTrue(N_b), flagTrue(N_c),
                   positionalArg(N_pos1) >>

----------------------------------------------------------------------------
(* C22 *)

\* t is name, "=", value, with no "=" in name.
splitsAt(t, name, value) ==
    \E n \in 1..Len(t) :
        /\ t[n] = "="
        /\ \A j \in 1..(n - 1) : t[j] # "="
        /\ name = SubSeq(t, 1, n - 1)
        /\ value = SubSeq(t, n + 1, Len(t))

\* C22: a step that classifies --name=value, or a cluster -...c=value,
\* appends an option event, for name or for the last character c, whose
\* value is all that follows the first "=", whatever the schema declares
\* for that name; before it come only the flags of the other characters of
\* the cluster; and the step consumes the classified token alone, so that
\* the token after it is classified by the next step.
C22_ValueAfterEquals ==
    [][ (InLoop /\ isOptionToken(arg) /\ hasEq(bare(arg))) =>
          /\ appends
          /\ idx' = idx + 1
          /\ topCommand' = topCommand
          /\ Len(newEvents) >= 1
          /\ lastNew.type = "option"
          /\ IF isLongToken(arg)
             THEN /\ Len(newEvents) = 1
                  /\ splitsAt(bare(arg), lastNew.name, lastNew.value)
             ELSE \E names \in {namePortion(arg)} :
                     /\ splitsAt(bare(arg), names, lastNew.value)
                     /\ Len(newEvents) = IF Len(names) = 0 THEN 1 ELSE Len(names)
                     /\ lastNew.name = lastNameOf(names)
                     /\ \A i \in 1..(Len(newEvents) - 1) :
                           newEvents[i] = flagTrue(<< names[i] >>) ]_vars

\* Under testCommand, where opt1 is a flag: --opt1=v is an option event
\* with the value v, --opt2=x=y has the value x=y, and cmd1, which follows,
\* is classified on its own, as a command.
C22_Witness ==
    /\ cmd = testCommand
    /\ args = << DD \o N_opt1 \o EqV, DD \o N_opt2 \o <<"=", "x", "=", "y">>, N_cmd1 >>
    /\ pc = "done"
    /\ parsed = << optionArg(N_opt1, <<"v">>),
                   optionArg(N_opt2, <<"x", "=", "y">>),
                   commandArg(N_cmd1) >>

----------------------------------------------------------------------------
(* C23 *)

\* C23: a step that classifies an option token without "=" that is the
\* last token appends flag events only, the last of them for the name the
\* token decides (less a leading "no-", which makes the value false), and
\* ends with the cursor at the end of the list, whether the name is
\* unknown, flag-like or declared as value-taking.
C23_LastTokenIsFlag ==
    [][ (OptionStepNoEq /\ ~hasFollowing) =>
          /\ appends
          /\ idx' = Len(args)
          /\ Len(newEvents) >= 1
          /\ \A i \in 1..Len(newEvents) : newEvents[i].type = "flag"
          /\ lastNew.name = stripNo(typedName(arg))
          /\ lastNew.value = ~startsWith(typedName(arg), NoPrefix) ]_vars

\* Under testCommand, where opt2 takes strings: after pos1, a last token
\* --opt2 is the flag opt2.
C23_Witness ==
    /\ cmd = testCommand
    /\ args = << N_pos1, DD \o N_opt2 >>
    /\ registered(args[2]).type = "strings"
    /\ pc = "done"
    /\ idx = 2
    /\ parsed = << positionalArg(N_pos1), flagTrue(N_opt2) >>

----------------------------------------------------------------------------
(* C24 *)

\* The kinds that the definitions of the whole command tree give a name.
declaredKinds(name) ==
    { o.type : o \in { d \in optionDefs : name \in allAliasesOf(d) } }
flagKinds == {"flag", "count"}
\* The token is written in the form its name is registered for: a long
\* token for a name of two characters or more, a short one for a character.
formOfItsName == isLongToken(arg) <=> Len(typedName(arg)) >= 2

\* C24: option resolution does not depend on the active command.  No step
\* changes the lookup tables; and whichever command is active, a step that
\* classifies an option token without "=" that a token follows (a long
\* token for a long name, a short one for a character) decides by what
\* the whole tree declares for the name: declared flag-like anywhere,
\* it is a flag and the following token stays in the input; declared
\* value-taking anywhere, it is an option with the following token as its
\* value.
C24_ResolutionIgnoresActiveCommand ==
    /\ [][ /\ longOptions' = longOptions
           /\ shortOptions' = shortOptions
           /\ knownOptionNames' = knownOptionNames ]_vars
    /\ [][ (/\ OptionStepNoEq /\ hasFollowing /\ formOfItsName
            /\ declaredKinds(typedName(arg)) # {}) =>
              /\ declaredKinds(typedName(arg)) \subseteq flagKinds =>
                    (lastNew.type = "flag" /\ idx' = idx + 1)
              /\ declaredKinds(typedName(arg)) \cap flagKinds = {} =>
                    (lastNew = optionArg(typedName(arg), following) /\ idx' = idx + 2) ]_vars

\* Under prefixCommand, where only cmd1 declares the flag b: after the
\* descent into cmd3, -b is the flag b and trot stays a positional.
C24_Witness ==
    /\ cmd = prefixCommand
    /\ args = << N_cmd3, D \o N_b, N_trot >>
    /\ pc = "done"
    /\ topCommand = 3
    /\ parsed = << commandArg(N_cmd3), flagTrue(N_b), positionalArg(N_trot) >>

----------------------------------------------------------------------------
(* C25 *)

\* The names of the command events emitted so far, in order.
commandPath ==
    LET events == SelectSeq(parsed, LAMBDA e : e.type = "command")
    IN  [i \in 1..Len(events) |-> events[i].name]

RECURSIVE walk(_, _, _)
\* The node that the names from the i-th on lead to from node n along
\* sub-command links, 0 when a name is no sub-command where it is read.
walk(n, names, i) ==
    IF i > Len(names) THEN n
    ELSE IF subNodes(n, names[i]) = {} THEN 0
    ELSE walk(CHOOSE m \in subNodes(n, names[i]) : TRUE, names, i + 1)

RECURSIVE depthBelow(_)
\* The longest chain of sub-command links below node n.
depthBelow(n) ==
    LET below == { cmd[n].subCommands[i].node : i \in 1..Len(cmd[n].subCommands) }
    IN  IF below = {} THEN 0
        ELSE 1 + CHOOSE d \in { depthBelow(m) : m \in below } :
                     \A e \in { depthBelow(m) : m \in below } : e <= d

\* C25: the names of the command events emitted so far spell a path of
\* sub-command links from the root, the active command is the node at its
\* end, and there are no more command events than the tree is deep; the
\* active command changes only in a step that appends one command event.
C25_CommandPath ==
    /\ [](/\ walk(1, commandPath, 1) = topCommand
          /\ Len(commandPath) <= depthBelow(1))
    /\ [][ topCommand' # topCommand =>
              (InLoop /\ newEvents = << commandArg(arg) >>) ]_vars

\* Under prefixCommand the parse went root, cmd1, cmd2, where cmd3, a
\* sub-command of the root, is a positional and "--" changes nothing.
C25_Witness ==
    /\ cmd = prefixCommand
    /\ args = << N_cmd1, N_cmd3, DD >>
    /\ pc = "done"
    /\ commandPath = << N_cmd1 >>
    /\ topCommand = 2
    /\ parsed = << commandArg(N_cmd1), positionalArg(N_cmd3) >>

----------------------------------------------------------------------------
(* C26 *)

\* How many of the events a step appends are option events.
newOptionEvents == Len(SelectSeq(newEvents, LAMBDA e : e.type = "option"))

\* What a step does with the tokens it moves the cursor over: the first is
\* the token it classifies, and a further one is either the value of the
\* one option event of the step or, after "--", one positional each.
handlesWhatItPasses ==
    IF rule = "breakout"
    THEN /\ idx' = Len(args)
         /\ newEvents = positionalsAfter(idx)
    ELSE IF rule \in {"long", "short"}
    THEN /\ idx' \in {idx + 1, idx + 2}
         /\ idx' = idx + 2 =>
                /\ hasFollowing
                /\ ~hasEq(bare(arg))
                /\ newOptionEvents = 1
                /\ lastNew = optionArg(typedName(arg), following)
         /\ idx' = idx + 1 =>
                newOptionEvents = (IF hasEq(bare(arg)) THEN 1 ELSE 0)
    ELSE /\ idx' = idx + 1
         /\ Len(newEvents) = 1
         /\ lastNew.type # "option"

\* C26: a step classifies the token at the cursor and moves the cursor over
\* it and over nothing but the value of its one option event or the
\* positionals after "--", steps are the only moves of the cursor, and the
\* parse ends with the cursor behind the last token, so that every token is
\* handled once and none is dropped; a token that was looked at and put
\* back is the value of no event and is the one the next step classifies.
C26_EveryTokenOnce ==
    /\ [](pc = "done" => idx = Len(args))
    /\ [][ IF InLoop THEN handlesWhatItPasses ELSE idx' = idx ]_vars
    /\ [][ (OptionStepNoEq /\ hasFollowing /\ lastNew.type = "flag") =>
              /\ idx' = idx + 1
              /\ newOptionEvents = 0
              /\ pc' = "parsing"
              /\ args'[idx' + 1] = following ]_vars

\* --opt1 is a flag: the token looked at, --opt2, was put back and is
\* classified next, and takes pos1 as its value.
C26_Witness ==
    /\ cmd = testCommand
    /\ args = << DD \o N_opt1, DD \o N_opt2, N_pos1 >>
    /\ pc = "done"
    /\ idx = 3
    /\ parsed = << flagTrue(N_opt1), optionArg(N_opt2, N_pos1) >>

----------------------------------------------------------------------------
(* C27 *)

\* The events that carry text taken from the token list.
carriesText(e) == e.type \in {"option", "positional"}

\* C27: the cursor stays between 0 and the number of tokens, it moves only
\* from a position below the number of tokens, where the token read is one
\* of the list, and no event carries what a read past the end of the list
\* gives.
C27_CursorInRange ==
    /\ [](/\ 0 <= idx
          /\ idx <= Len(args)
          /\ \A i \in 1..Len(parsed) :
                 carriesText(parsed[i]) => parsed[i].value # PastEnd)
    /\ [][ idx' # idx =>
              /\ idx < Len(args)
              /\ arg = args[idx + 1]
              /\ arg # PastEnd ]_vars

\* --opt2 takes values and is the last token: nothing is read behind it,
\* it is a flag and the cursor ends at the number of tokens.
C27_Witness ==
    /\ cmd = testCommand
    /\ args = << N_cmd1, DD \o N_opt4, DD \o N_opt2 >>
    /\ lookup(longOptions, N_opt2).type = "strings"
    /\ pc = "done"
    /\ idx = Len(args)
    /\ parsed = << commandArg(N_cmd1), flagTrue(N_opt4), flagTrue(N_opt2) >>

----------------------------------------------------------------------------
(* C28 *)

\* What an engine shows of a parse: the cursor, the events, the active
\* command, and whether and how it threw.
shown(p) ==
    [idx |-> p.idx, parsed |-> p.parsed, topCommand |-> p.topCommand,
     error |-> p.error]
\* The same of the closure-based engine at the current state.
shownHere ==
    [idx |-> idx, parsed |-> parsed, topCommand |-> topCommand, error |-> error]

\* The other two engines after as many rounds of their loops as the
\* closure-based engine has made classification steps.
classEngine == CLP_parse(CLP_constructor, steps)
draftEngine == Draft_parse(Draft_createParserContext, steps)

\* parseCommandLine(cmd, args) and the draft's parse(cmd, args), run to
\* the end: no loop makes more rounds than there are tokens.
classResult == CLP_parse(CLP_constructor, Len(args))
draftResult == Draft_parse(Draft_createParserContext, Len(args))

\* C28: for every schema and token list the class-based engine, the first
\* functional draft and the closure-based engine all fail at registry
\* build or none does, after every classification step they show the same
\* cursor, events and active command and agree on whether another round
\* follows, and they return the same event sequence.
C28_EnginesAgree ==
    LET class == classEngine
        draft == draftEngine
        another == pc = "parsing" /\ hasNext(context)
    IN  /\ (error = "conflict") = (class.error = "conflict")
        /\ (error = "conflict") = (draft.error = "conflict")
        /\ shown(class) = shownHere
        /\ shown(draft) = shownHere
        /\ another = (class.error = "none" /\ class.idx < Len(args))
        /\ another = (draft.error = "none" /\ Draft_hasNext(draft))
        /\ pc = "done" => /\ classResult.parsed = parsed
                          /\ draftResult.parsed = parsed

\* Under prefixCommand, after cmd1, the cluster -abc (a flag, b a flag of
\* cmd1, c unknown) looked at trot and took it as the value of c: the three
\* engines made two rounds and returned the same four events.
C28_Witness ==
    /\ cmd = prefixCommand
    /\ args = << N_cmd1, D \o N_a \o N_b \o N_c, N_trot >>
    /\ pc = "done"
    /\ steps = 2
    /\ parsed = << commandArg(N_cmd1), flagTrue(N_a), flagTrue(N_b),
                   optionArg(N_c, N_trot) >>
    /\ classResult.parsed = parsed
    /\ draftResult.parsed = parsed
    /\ classEngine.topCommand = 2

====
